---- MODULE Spec2Model ----
(***************************************************************************)
(* Model of the xbstrap plan engine (src/xbstrap/base.py): configuration   *)
(* subjects and their requirement lists, plan keys, materialization of     *)
(* plan items, the DFS ordering, activation, the state probes over the     *)
(* marker files, and the run_plan() driver with its action handlers.       *)
(***************************************************************************)
EXTENDS Integers, Sequences, FiniteSets, TLC

(***************************************************************************)
(* Bounds of the model.                                                    *)
(***************************************************************************)
\* Largest modification time a marker file has before the plan runs.
MaxTime == 2
\* Largest number of files that deviate from the baseline file system.
MaxDirty == 1
\* Largest seed of the set iteration order (hash order) of plan keys.
MaxSeed == 3

(***************************************************************************)
(* Python values.                                                          *)
(***************************************************************************)
\* None where a string is expected (get_subject_id_ordering_key maps None to "").
NoName == ""
\* None as a target_sysroot_id; a real id is a tuple of package names.
NoSysroot == <<"None">>
\* None as a timestamp (stat_mtime of an absent file).
NoTime == 0

\* Lexicographic "<" of two tuples of integers, as Python compares tuples.
RECURSIVE TupleLess(_, _)
TupleLess(a, b) ==
    IF a = <<>> THEN b # <<>>
    ELSE IF b = <<>> THEN FALSE
    ELSE IF Head(a) # Head(b) THEN Head(a) < Head(b)
    ELSE TupleLess(Tail(a), Tail(b))

\* The names used by the configurations, in Python's string order.
NameOrder == <<"", "ka", "pa", "pb", "pc", "pd", "pe", "ta", "tb", "x", "y">>
NameRank(n) == CHOOSE i \in 1..Len(NameOrder) : NameOrder[i] = n

\* Python's sorted() on a set of names, as a tuple.
RECURSIVE SortedNames(_)
SortedNames(S) ==
    IF S = {} THEN <<>>
    ELSE LET m == CHOOSE x \in S : \A y \in S : NameRank(x) <= NameRank(y)
         IN <<m>> \o SortedNames(S \ {m})

(***************************************************************************)
(* class Action                                                            *)
(***************************************************************************)
ActionValue ==
    [ FETCH_SRC |-> 1, CHECKOUT_SRC |-> 2, PATCH_SRC |-> 3, REGENERATE_SRC |-> 4,
      CONFIGURE_TOOL |-> 5, COMPILE_TOOL_STAGE |-> 6, INSTALL_TOOL_STAGE |-> 7,
      CONFIGURE_PKG |-> 8, BUILD_PKG |-> 9, REPRODUCE_BUILD_PKG |-> 10,
      PACK_PKG |-> 11, REPRODUCE_PACK_PKG |-> 12, INSTALL_PKG |-> 13,
      ARCHIVE_TOOL |-> 14, ARCHIVE_PKG |-> 15, PULL_PKG_PACK |-> 16,
      PULL_ARCHIVE |-> 17, RUN |-> 18, RUN_PKG |-> 19, RUN_TOOL |-> 20,
      WANT_TOOL |-> 21, WANT_PKG |-> 22, MIRROR_SRC |-> 23 ]

Action == DOMAIN ActionValue

(***************************************************************************)
(* Subjects.  A subject is the Python object a PlanKey refers to; kind     *)
(* tells the class (Source, HostPackage, HostStage, TargetPackage,         *)
(* RunTask, PackageRunTask of a package or of a tool).                     *)
(***************************************************************************)
Src(n) == [kind |-> "src", name |-> n, stage |-> NoName, parent |-> NoName]
Tool(n) == [kind |-> "tool", name |-> n, stage |-> NoName, parent |-> NoName]
Stage(n, st) == [kind |-> "stage", name |-> n, stage |-> st, parent |-> NoName]
Pkg(n) == [kind |-> "pkg", name |-> n, stage |-> NoName, parent |-> NoName]
Task(n) == [kind |-> "task", name |-> n, stage |-> NoName, parent |-> NoName]
PkgTask(p, n) == [kind |-> "pkgtask", name |-> n, stage |-> NoName, parent |-> p]
ToolTask(p, n) == [kind |-> "tooltask", name |-> n, stage |-> NoName, parent |-> p]

\* SubjectType(...).value of the subject's subject_id.
SubjectType(s) ==
    CASE s.kind = "src" -> "src"
      [] s.kind \in {"tool", "stage"} -> "tool"
      [] s.kind = "pkg" -> "pkg"
      [] s.kind \in {"pkgtask", "tooltask"} -> "pkg-task"
      [] s.kind = "task" -> "task"

\* Python's string order of the five SubjectType values.
TypeRank(t) ==
    CASE t = "pkg" -> 1
      [] t = "pkg-task" -> 2
      [] t = "src" -> 3
      [] t = "task" -> 4
      [] t = "tool" -> 5

\* get_subject_id_ordering_key: (type.value, parent or "", name, stage or "").
\* The name of a PackageRunTask is "<parent>:<task>"; with the parent compared
\* first, comparing these names is comparing the task names.
get_subject_id_ordering_key(s) ==
    <<TypeRank(SubjectType(s)), NameRank(s.parent), NameRank(s.name), NameRank(s.stage)>>

(***************************************************************************)
(* PlanKey(action, subject, target_sysroot_id=None)                        *)
(***************************************************************************)
PlanKey(a, s) == [action |-> a, subject |-> s, target_sysroot_id |-> NoSysroot]
PlanKeyIn(a, s, sid) == [action |-> a, subject |-> s, target_sysroot_id |-> sid]

(***************************************************************************)
(* Configurations.  yml[s] holds the requirement lists of the YAML node of *)
(* subject s: sources_required and tools_required are sets of entries with *)
(* their recursive flag, tasks_required entries carry order_only.  vcs is  *)
(* the kind of the sources ("git": a branch of a repository, "url": an     *)
(* archive), auto_pull is the setting of the site file.                    *)
(***************************************************************************)
SrcReq(n, r) == [name |-> n, recursive |-> r]
ToolReq(n, r) == [tool |-> n, recursive |-> r]
TaskReq(n, o) == [task |-> n, order_only |-> o]

Yml(src, sr, tr, pr, kr, imp) ==
    [ source |-> src, sources_required |-> sr, tools_required |-> tr,
      pkgs_required |-> pr, tasks_required |-> kr, implicit |-> imp ]

EmptyYml(src) == Yml(src, {}, {}, {}, {}, FALSE)

\* The labels of a site file: whether it has a match list, the match and
\* the ban list, and with them the labels of the tools and packages.
Labels(hm, m, b, ls) == [has_match |-> hm, match |-> m, ban |-> b, label_set |-> ls]

\* No labels in the site file and none on the subjects.
NoLabels == Labels(FALSE, {}, {}, <<>>)

\* One tool built from its own source, a single inherited stage.
CfgTool ==
    [ id |-> "tool", use_xbps |-> FALSE, isolate_sysroots |-> FALSE, auto_pull |-> FALSE, labels |-> NoLabels,
      tools |-> {"ta"}, pkgs |-> {}, tasks |-> {}, vcs |-> "git",
      stages |-> [t \in {"ta"} |-> {NoName}],
      yml |-> (Src("ta") :> EmptyYml("ta")) @@ (Tool("ta") :> EmptyYml("ta")) ]

\* Two tools from one source; tb requires ta and has two named stages.
CfgTwoTools ==
    [ id |-> "twotools", use_xbps |-> FALSE, isolate_sysroots |-> FALSE, auto_pull |-> FALSE, labels |-> NoLabels,
      tools |-> {"ta", "tb"}, pkgs |-> {}, tasks |-> {}, vcs |-> "git",
      stages |-> [t \in {"ta", "tb"} |-> IF t = "ta" THEN {NoName} ELSE {"x", "y"}],
      yml |-> (Src("ta") :> EmptyYml("ta"))
           @@ (Tool("ta") :> EmptyYml("ta"))
           @@ (Tool("tb") :> Yml("ta", {}, {ToolReq("ta", FALSE)}, {}, {}, FALSE))
           @@ (Stage("tb", "x") :> EmptyYml("ta"))
           @@ (Stage("tb", "y") :> EmptyYml("ta")) ]

\* Package pa requires package pb and a task; both packages share a source.
CfgPkgs ==
    [ id |-> "pkgs", use_xbps |-> FALSE, isolate_sysroots |-> FALSE, auto_pull |-> FALSE, labels |-> NoLabels,
      tools |-> {}, pkgs |-> {"pa", "pb"}, tasks |-> {"ka"}, vcs |-> "url",
      stages |-> [t \in {} |-> {}],
      yml |-> (Src("pa") :> EmptyYml("pa"))
           @@ (Pkg("pa") :> Yml("pa", {}, {}, {"pb"}, {TaskReq("ka", TRUE)}, FALSE))
           @@ (Pkg("pb") :> EmptyYml("pa"))
           @@ (Task("ka") :> EmptyYml(NoName)) ]

\* As CfgPkgs with the xbps package backend and isolated sysroots.
CfgXbps ==
    [ id |-> "xbps", use_xbps |-> TRUE, isolate_sysroots |-> TRUE, auto_pull |-> FALSE, labels |-> NoLabels,
      tools |-> {}, pkgs |-> {"pa", "pb"}, tasks |-> {}, vcs |-> "git",
      stages |-> [t \in {} |-> {}],
      yml |-> (Src("pa") :> EmptyYml("pa"))
           @@ (Pkg("pa") :> Yml("pa", {}, {}, {"pb"}, {}, FALSE))
           @@ (Pkg("pb") :> Yml("pa", {}, {}, {}, {}, TRUE)) ]

\* Package pa requires pb; pb and pc require each other.
CfgCycle ==
    [ id |-> "cycle", use_xbps |-> FALSE, isolate_sysroots |-> FALSE, auto_pull |-> FALSE, labels |-> NoLabels,
      tools |-> {}, pkgs |-> {"pa", "pb", "pc"}, tasks |-> {}, vcs |-> "url",
      stages |-> [t \in {} |-> {}],
      yml |-> (Src("pa") :> EmptyYml("pa"))
           @@ (Pkg("pa") :> Yml("pa", {}, {}, {"pb"}, {}, FALSE))
           @@ (Pkg("pb") :> Yml("pa", {}, {}, {"pc"}, {}, FALSE))
           @@ (Pkg("pc") :> Yml("pa", {}, {}, {"pb"}, {}, FALSE)) ]

\* Isolated sysroots: package pa requires pb, pc and the tool ta, pb requires
\* pd, ta requires pd, and pe is implicit.
CfgIsolated ==
    [ id |-> "isolated", use_xbps |-> FALSE, isolate_sysroots |-> TRUE, auto_pull |-> FALSE, labels |-> NoLabels,
      tools |-> {"ta"}, pkgs |-> {"pa", "pb", "pc", "pd", "pe"}, tasks |-> {}, vcs |-> "git",
      stages |-> [t \in {"ta"} |-> {NoName}],
      yml |-> (Src("pa") :> EmptyYml("pa"))
           @@ (Tool("ta") :> Yml("pa", {}, {}, {"pd"}, {}, FALSE))
           @@ (Pkg("pa") :> Yml("pa", {}, {ToolReq("ta", FALSE)}, {"pb", "pc"}, {}, FALSE))
           @@ (Pkg("pb") :> Yml("pa", {}, {}, {"pd"}, {}, FALSE))
           @@ (Pkg("pc") :> EmptyYml("pa"))
           @@ (Pkg("pd") :> EmptyYml("pa"))
           @@ (Pkg("pe") :> Yml("pa", {}, {}, {}, {}, TRUE)) ]

\* Package pa requires tool ta and really requires task ka; pa and ta carry
\* a task ka of their own.
CfgTasks ==
    [ id |-> "tasks", use_xbps |-> FALSE, isolate_sysroots |-> FALSE, auto_pull |-> FALSE, labels |-> NoLabels,
      tools |-> {"ta"}, pkgs |-> {"pa"}, tasks |-> {"ka"}, vcs |-> "git",
      stages |-> [t \in {"ta"} |-> {NoName}],
      yml |-> (Src("pa") :> EmptyYml("pa"))
           @@ (Tool("ta") :> EmptyYml("pa"))
           @@ (Pkg("pa") :> Yml("pa", {}, {ToolReq("ta", FALSE)}, {}, {TaskReq("ka", FALSE)}, FALSE))
           @@ (Task("ka") :> EmptyYml(NoName)) ]

\* The labels given to the tool and some packages of CfgIsolated.
LabelSets ==
    (Tool("ta") :> {"host"}) @@ (Pkg("pa") :> {"x86", "gui"}) @@ (Pkg("pb") :> {"gui"})
      @@ (Pkg("pc") :> {"x86"})

\* The labels a site file can name.
SiteLabels == {"x86", "gui", "host"}

\* The site files considered: without match list, or with any match list
\* (the empty one included), and with any ban list.
Sites ==
    {Labels(FALSE, {}, b, LabelSets) : b \in SUBSET SiteLabels}
      \cup {Labels(TRUE, m, b, LabelSets) : m \in SUBSET SiteLabels, b \in SUBSET SiteLabels}

Configs == {CfgTool, CfgTwoTools, CfgPkgs, CfgXbps, CfgCycle}

(***************************************************************************)
(* Config lookups and RequirementsMixin.                                   *)
(***************************************************************************)
\* HostPackage.label_set, TargetPackage.label_set: the labels the
\* configuration gives the subject under label_set, none without an entry.
label_set(c, s) ==
    IF s \in DOMAIN c.labels.label_set THEN c.labels.label_set[s] ELSE {}

\* Config.check_labels
check_labels(c, ls) ==
    /\ c.labels.has_match => \E x \in c.labels.match : x \in ls
    /\ ~\E x \in c.labels.ban : x \in ls

\* Config.all_tools
all_tools(c) == {Tool(m) : m \in {tn \in c.tools : check_labels(c, label_set(c, Tool(tn)))}}

\* Config.all_pkgs
all_pkgs(c) == {Pkg(m) : m \in {tn \in c.pkgs : check_labels(c, label_set(c, Pkg(tn)))}}

\* What a lookup returns: the subject, or the exception raised instead.
Returned(s) == [raised |-> "None", value |-> s]
Raised(e) == [raised |-> e, value |-> NoName]

\* Config.get_tool_pkg
get_tool_pkg(c, name) ==
    IF name \in c.tools
    THEN IF ~check_labels(c, label_set(c, Tool(name))) THEN Raised("GenericError")
         ELSE Returned(Tool(name))
    ELSE Raised("GenericError")

\* Config.get_target_pkg
get_target_pkg(c, name) ==
    IF name \in c.pkgs
    THEN IF ~check_labels(c, label_set(c, Pkg(name))) THEN Raised("GenericError")
         ELSE Returned(Pkg(name))
    ELSE Raised("GenericError")

\* HostPackage.all_stages.
all_stages(c, t) == {Stage(t.name, st) : st \in c.stages[t.name]}

\* The _this_yml of a subject: an inherited stage shares the YAML node of its
\* tool, a PackageRunTask that of its package or tool.
this_yml(c, s) ==
    CASE s.kind = "stage" /\ s.stage = NoName -> c.yml[Tool(s.name)]
      [] s.kind = "pkgtask" -> c.yml[Pkg(s.parent)]
      [] s.kind = "tooltask" -> c.yml[Tool(s.parent)]
      [] OTHER -> c.yml[s]

\* subject.pkg of a HostStage or of a PackageRunTask.
pkg_of(s) ==
    CASE s.kind = "stage" -> Tool(s.name)
      [] s.kind = "pkgtask" -> Pkg(s.parent)
      [] s.kind = "tooltask" -> Tool(s.parent)

\* TargetPackage.is_implicit, PackageRunTask.is_implicit, RunTask.is_implicit.
is_implicit(c, s) == IF s.kind = "pkg" THEN c.yml[s].implicit ELSE FALSE

\* RequirementsMixin.source_dependencies: the listed sources and, through the
\* sources reached, the entries marked recursive.
RECURSIVE SourceClosure(_, _, _)
SourceClosure(c, seen, stack) ==
    IF stack = {} THEN seen
    ELSE LET source == CHOOSE x \in stack : TRUE
             more == {e.name : e \in {r \in c.yml[Src(source)].sources_required :
                                        r.recursive}} \ seen
         IN SourceClosure(c, seen \cup more, (stack \ {source}) \cup more)

source_dependencies(c, s) ==
    LET direct == {e.name : e \in this_yml(c, s).sources_required}
    IN SourceClosure(c, direct, direct)

\* RequirementsMixin.tool_stage_dependencies: all stages of the listed tools
\* and, through the tools reached, of the entries marked recursive.
RECURSIVE StageClosure(_, _, _)
StageClosure(c, seen, stack) ==
    IF stack = {} THEN seen
    ELSE LET stage == CHOOSE x \in stack : TRUE
             more == UNION {all_stages(c, Tool(e.tool)) :
                              e \in {r \in c.yml[pkg_of(stage)].tools_required :
                                       r.recursive}} \ seen
         IN StageClosure(c, seen \cup more, (stack \ {stage}) \cup more)

tool_stage_dependencies(c, s) ==
    LET direct == UNION {all_stages(c, Tool(e.tool)) :
                           e \in this_yml(c, s).tools_required}
    IN StageClosure(c, direct, direct)

\* RequirementsMixin.pkg_dependencies.
pkg_dependencies(c, s) == this_yml(c, s).pkgs_required

\* Task dependencies that take the order_only entries for requirements.
task_dependencies_of_all(c, s) == {e.task : e \in this_yml(c, s).tasks_required}

\* RequirementsMixin.task_dependencies: entries that are not order_only.
task_dependencies(c, s) ==
    {e.task : e \in {r \in this_yml(c, s).tasks_required : ~r.order_only}}

\* RequirementsMixin.tasks_ordered_before: the order_only entries.
tasks_ordered_before(c, s) ==
    {e.task : e \in {r \in this_yml(c, s).tasks_required : r.order_only}}

(***************************************************************************)
(* PlanItem construction and Plan._materialize_item.                       *)
(***************************************************************************)
\* determine_sysroot_id(action, subject).
determine_sysroot_id(c, a, s) ==
    IF a \in {"BUILD_PKG", "REPRODUCE_BUILD_PKG", "CONFIGURE_PKG"}
    THEN SortedNames(pkg_dependencies(c, s))
    ELSE NoSysroot

\* PlanItem.__init__: the sysroot_id of the item of a key.
sysroot_id_of(c, key) ==
    IF c.isolate_sysroots
    THEN IF key.action = "INSTALL_PKG" THEN key.target_sysroot_id
         ELSE determine_sysroot_id(c, key.action, key.subject)
    ELSE NoSysroot

\* The scope of a plan is None (no restriction) or a set of subjects.
NoScope == {[kind |-> "none", name |-> NoName, stage |-> NoName, parent |-> NoName]}

\* A plan for which every subject is in scope.
InScope_of_all(p, s) == TRUE

\* dep_tool not in self.build_scope, negated; None restricts nothing.
InScope(p, s) == p.build_scope = NoScope \/ s \in p.build_scope

add_implicit_pkgs(c, s, sid) ==
    IF is_implicit(c, s) THEN {}
    ELSE {PlanKeyIn("INSTALL_PKG", i, sid) : i \in {q \in all_pkgs(c) : is_implicit(c, q)}}

add_source_dependencies(c, s) ==
    {PlanKey("PATCH_SRC", Src(n)) : n \in source_dependencies(c, s)}

add_tool_dependencies(c, p, s) ==
    {IF ~InScope(p, Tool(st.name))
     THEN IF p.pull_out_of_scope THEN PlanKey("PULL_ARCHIVE", Tool(st.name))
          ELSE PlanKey("WANT_TOOL", Tool(st.name))
     ELSE PlanKey("INSTALL_TOOL_STAGE", st) : st \in tool_stage_dependencies(c, s)}

\* Package dependencies that are installed into the shared sysroot.
add_pkg_dependencies_shared(c, s, sid) ==
    {PlanKey("INSTALL_PKG", Pkg(q)) : q \in pkg_dependencies(c, s)}

add_pkg_dependencies(c, s, sid) ==
    {PlanKeyIn("INSTALL_PKG", Pkg(n), sid) : n \in pkg_dependencies(c, s)}

add_task_dependencies(c, s) ==
    {PlanKey("RUN", Task(n)) : n \in task_dependencies(c, s)}

add_task_order(c, s) ==
    {PlanKey("RUN", Task(n)) : n \in tasks_ordered_before(c, s)}

Edges(b, r, o) == [build_edges |-> b, require_edges |-> r, order_before_edges |-> o]

\* Plan._materialize_item: the edge sets of the item of a key.
_materialize_item(c, p, key) ==
    LET action == key.action
        subject == key.subject
        sid == sysroot_id_of(c, key)
        src == Src(this_yml(c, subject).source)
    IN CASE action = "CHECKOUT_SRC" ->
              Edges({PlanKey("FETCH_SRC", subject)}, {}, {})
         [] action = "PATCH_SRC" ->
              Edges({PlanKey("CHECKOUT_SRC", subject)}, {}, {})
         [] action = "REGENERATE_SRC" ->
              Edges({PlanKey("PATCH_SRC", subject)},
                    add_source_dependencies(c, subject)
                      \cup add_tool_dependencies(c, p, subject), {})
         [] action = "CONFIGURE_TOOL" ->
              Edges({PlanKey("REGENERATE_SRC", src)},
                    add_source_dependencies(c, subject)
                      \cup add_tool_dependencies(c, p, subject)
                      \cup add_pkg_dependencies(c, subject, sid)
                      \cup add_task_dependencies(c, subject),
                    add_task_order(c, subject))
         [] action = "COMPILE_TOOL_STAGE" ->
              Edges({PlanKey("CONFIGURE_TOOL", pkg_of(subject))},
                    add_source_dependencies(c, subject)
                      \cup add_tool_dependencies(c, p, pkg_of(subject))
                      \cup add_tool_dependencies(c, p, subject)
                      \cup add_pkg_dependencies(c, subject, sid)
                      \cup add_task_dependencies(c, subject),
                    add_task_order(c, subject))
         [] action = "INSTALL_TOOL_STAGE" ->
              Edges({PlanKey("COMPILE_TOOL_STAGE", subject)},
                    add_tool_dependencies(c, p, pkg_of(subject))
                      \cup add_tool_dependencies(c, p, subject)
                      \cup add_pkg_dependencies(c, subject, sid)
                      \cup add_task_dependencies(c, subject),
                    add_task_order(c, subject))
         [] action = "CONFIGURE_PKG" ->
              Edges({PlanKey("REGENERATE_SRC", src)},
                    add_source_dependencies(c, subject)
                      \cup add_implicit_pkgs(c, subject, sid)
                      \cup add_pkg_dependencies(c, subject, sid)
                      \cup add_tool_dependencies(c, p, subject)
                      \cup add_task_dependencies(c, subject),
                    add_task_order(c, subject))
         [] action \in {"BUILD_PKG", "REPRODUCE_BUILD_PKG"} ->
              Edges({PlanKey("CONFIGURE_PKG", subject)},
                    add_source_dependencies(c, subject)
                      \cup add_implicit_pkgs(c, subject, sid)
                      \cup add_pkg_dependencies(c, subject, sid)
                      \cup add_tool_dependencies(c, p, subject)
                      \cup add_task_dependencies(c, subject),
                    add_task_order(c, subject))
         [] action \in {"PACK_PKG", "REPRODUCE_PACK_PKG"} ->
              Edges({PlanKey("BUILD_PKG", subject)}, {}, {})
         [] action = "INSTALL_PKG" ->
              Edges({IF ~InScope(p, subject)
                     THEN IF p.pull_out_of_scope THEN PlanKey("PULL_PKG_PACK", subject)
                          ELSE PlanKey("WANT_PKG", subject)
                     ELSE IF c.use_xbps THEN PlanKey("PACK_PKG", subject)
                          ELSE PlanKey("BUILD_PKG", subject)},
                    add_implicit_pkgs(c, subject, sid)
                      \cup add_pkg_dependencies(c, subject, sid), {})
         [] action = "ARCHIVE_TOOL" ->
              Edges({PlanKey("INSTALL_TOOL_STAGE", st) : st \in all_stages(c, subject)},
                    {}, {})
         [] action = "ARCHIVE_PKG" ->
              Edges({PlanKey("BUILD_PKG", subject)}, {}, {})
         [] action = "RUN" ->
              Edges({},
                    add_source_dependencies(c, subject)
                      \cup add_implicit_pkgs(c, subject, sid)
                      \cup add_pkg_dependencies(c, subject, sid)
                      \cup add_tool_dependencies(c, p, subject)
                      \cup add_task_dependencies(c, subject),
                    add_task_order(c, subject))
         [] action = "RUN_PKG" ->
              Edges({PlanKey("BUILD_PKG", pkg_of(subject))},
                    add_implicit_pkgs(c, subject, sid)
                      \cup add_pkg_dependencies(c, subject, sid)
                      \cup add_tool_dependencies(c, p, subject)
                      \cup add_task_dependencies(c, subject),
                    add_task_order(c, subject))
         [] action = "RUN_TOOL" ->
              Edges({PlanKey("COMPILE_TOOL_STAGE", st) :
                       st \in all_stages(c, pkg_of(subject))},
                    add_tool_dependencies(c, p, pkg_of(subject))
                      \cup add_tool_dependencies(c, p, subject)
                      \cup add_pkg_dependencies(c, subject, sid)
                      \cup add_task_dependencies(c, subject),
                    add_task_order(c, subject))
         [] OTHER -> Edges({}, {}, {})

(***************************************************************************)
(* Iteration order of Python sets of plan keys.  The order depends on the  *)
(* hashes of the keys; the model enumerates a set in one of a family of    *)
(* total orders selected by a seed.                                        *)
(***************************************************************************)
KindRank(k) ==
    CASE k = "src" -> 1 [] k = "tool" -> 2 [] k = "stage" -> 3 [] k = "pkg" -> 4
      [] k = "task" -> 5 [] k = "pkgtask" -> 6 [] k = "tooltask" -> 7

SysrootTuple(sid) ==
    IF sid = NoSysroot THEN <<1>> ELSE <<0>> \o [i \in 1..Len(sid) |-> NameRank(sid[i])]

\* A total order on plan keys that compares every part of the key.
HashKey(key) ==
    <<ActionValue[key.action], KindRank(key.subject.kind)>>
      \o get_subject_id_ordering_key(key.subject) \o SysrootTuple(key.target_sysroot_id)

RECURSIVE Ascending(_)
Ascending(S) ==
    IF S = {} THEN <<>>
    ELSE LET m == CHOOSE x \in S : \A y \in S \ {x} : TupleLess(HashKey(x), HashKey(y))
         IN <<m>> \o Ascending(S \ {m})

Reverse(q) == [i \in 1..Len(q) |-> q[Len(q) + 1 - i]]

Rotate(q, n) ==
    IF q = <<>> THEN q
    ELSE [i \in 1..Len(q) |-> q[((i - 1 + n) % Len(q)) + 1]]

\* for edge in <set>: the elements of S in the iteration order of the seed.
SetIter(S, seed) ==
    LET a == Rotate(Ascending(S), seed \div 2)
    IN IF seed % 2 = 1 THEN Reverse(a) ELSE a

(***************************************************************************)
(* Plan._do_materialization                                                *)
(***************************************************************************)
\* Plan._do_materialization_visit: push the edges not visited yet.
RECURSIVE _do_materialization_visit(_, _)
_do_materialization_visit(edges, st) ==
    IF edges = <<>> THEN st
    ELSE IF Head(edges) \in st.visited THEN _do_materialization_visit(Tail(edges), st)
         ELSE _do_materialization_visit(Tail(edges),
                [st EXCEPT !.visited = @ \cup {Head(edges)}, !.stack = Append(@, Head(edges))])

\* One iteration of the while loop: the popped key gets a new PlanItem, whose
\* build and require edges are visited.  A key that is in the dict already
\* keeps its place in it; fresh holds the keys whose PlanItem this call made.
MaterializeKey(seed, st, key, item) ==
    _do_materialization_visit(SetIter(item.build_edges \cup item.require_edges, seed),
      [st EXCEPT !.stack = SubSeq(@, 1, Len(@) - 1),
                 !.keys = IF key \in DOMAIN st.item THEN @ ELSE Append(@, key),
                 !.item = (key :> item) @@ @,
                 !.fresh = @ \cup {key}])

\* raise RuntimeError("Need xbps to pull packages that are out of scope")
needs_xbps(c, p, key) ==
    /\ key.action = "INSTALL_PKG" /\ ~InScope(p, key.subject)
    /\ p.pull_out_of_scope /\ ~c.use_xbps

\* The while loop; it ends with keys left on the stack when
\* _materialize_item raised.
RECURSIVE MaterializationLoop(_, _, _, _)
MaterializationLoop(c, p, seed, st) ==
    IF st.stack = <<>> \/ needs_xbps(c, p, st.stack[Len(st.stack)]) THEN st
    ELSE MaterializationLoop(c, p, seed,
           MaterializeKey(seed, st, st.stack[Len(st.stack)],
                          _materialize_item(c, p, st.stack[Len(st.stack)])))

\* The Plan object after Plan.__init__: visited is
\* _visited_for_materialization, stack is _stack, keys is the insertion order
\* of _items, item maps each key to the edges of its PlanItem, order is
\* _order; edge_list, state, active, build_span and outdated hold the fields
\* of the PlanItems of _items.
BlankPlan ==
    [ visited |-> {}, stack |-> <<>>, keys |-> <<>>, item |-> <<>>, fresh |-> {},
      order |-> <<>>, edge_list |-> <<>>, state |-> <<>>, active |-> {},
      build_span |-> {}, outdated |-> {}, visited_for_activation |-> {} ]

\* Plan._do_materialization on a Plan object.
_do_materialization_of(c, p, seed, pl) ==
    MaterializationLoop(c, p, seed,
      [pl EXCEPT !.visited = @ \cup p.wanted, !.stack = SetIter(p.wanted, seed),
                 !.fresh = {}])

\* Plan._do_materialization on a new Plan.
_do_materialization(c, p, seed) == _do_materialization_of(c, p, seed, BlankPlan)

(***************************************************************************)
(* Plan._do_ordering                                                       *)
(***************************************************************************)
\* action_to_prio.get(key.action, 0)
ActionPrio(a) ==
    CASE a = "WANT_TOOL" -> 0 - 2
      [] a \in {"WANT_PKG", "PULL_PKG_PACK"} -> 0 - 1
      [] a = "INSTALL_PKG" -> 2
      [] OTHER -> 0

\* An ordering key that tells the subject but not the action.
get_ordering_key_of_subject(key) ==
    <<ActionPrio(key.action)>> \o get_subject_id_ordering_key(key.subject)

\* PlanItem.get_ordering_key
get_ordering_key(key) ==
    <<ActionPrio(key.action)>> \o get_subject_id_ordering_key(key.subject)
      \o <<ActionValue[key.action]>> \o SysrootTuple(key.target_sysroot_id)

\* list.sort(key=PlanItem.get_ordering_key): a stable sort.
\* x goes in front of the first element of sorted whose key is greater than
\* its own: behind the elements whose keys are not, which sorted holds first.
InsertSorted(x, sorted) ==
    LET k == Cardinality({i \in DOMAIN sorted :
                 ~TupleLess(get_ordering_key(x), get_ordering_key(sorted[i]))})
    IN SubSeq(sorted, 1, k) \o <<x>> \o SubSeq(sorted, k + 1, Len(sorted))

\* sorted holds the first Len(sorted) elements of items, sorted.
RECURSIVE SortFrom(_, _)
SortFrom(items, sorted) ==
    IF Len(sorted) = Len(items) THEN sorted
    ELSE SortFrom(items, InsertSorted(items[Len(sorted) + 1], sorted))

sort_items(items) == SortFrom(items, <<>>)

SelectIn(q, S) == SelectSeq(q, LAMBDA k : k \in S)

\* An edge_list that leaves out the require edges.
_do_order_before_build_only(seed, materialized, item) ==
    SelectIn(SetIter(item.build_edges, seed) \o SetIter(item.order_before_edges, seed),
             materialized)

\* Plan._do_order_before over the three edge sets of an item: the edge_list
\* of the item before sorting (order_after_edges is never filled).
_do_order_before(seed, materialized, item) ==
    SelectIn(SetIter(item.build_edges, seed) \o SetIter(item.require_edges, seed)
               \o SetIter(item.order_before_edges, seed),
             materialized)

\* The sorted edge_list of every item of _items: _do_order_before appends to
\* the edge_list the PlanItem has, which is empty for a new PlanItem.
EdgeLists(seed, mat) ==
    [key \in DOMAIN mat.item |->
        sort_items((IF key \in mat.fresh THEN <<>> ELSE mat.edge_list[key])
                     \o _do_order_before(seed, DOMAIN mat.item, mat.item[key]))]

\* A visit that expands an item again although it is ordered already.
visit_ordered_again(item, st) ==
    IF st.plan_state[item] = "EXPANDING" THEN [st EXCEPT !.circular = TRUE]
    ELSE [st EXCEPT !.plan_state[item] = "EXPANDING", !.stack = Append(@, item)]

\* visit(item) of the topological sort.
visit(item, st) ==
    CASE st.plan_state[item] = "NULL" ->
           [st EXCEPT !.plan_state[item] = "EXPANDING", !.stack = Append(@, item)]
      [] st.plan_state[item] = "EXPANDING" ->
           [st EXCEPT !.circular = TRUE]
      [] OTHER -> st

\* while stack: ... of the topological sort.
RECURSIVE ExpandLoop(_, _)
ExpandLoop(edge_list, st) ==
    IF st.circular \/ st.stack = <<>> THEN st
    ELSE ExpandLoop(edge_list,
           IF st.resolved_n[st.stack[Len(st.stack)]] = Len(edge_list[st.stack[Len(st.stack)]])
           THEN [st EXCEPT !.plan_state[st.stack[Len(st.stack)]] = "ORDERED",
                           !.stack = SubSeq(@, 1, Len(@) - 1),
                           !.order = Append(@, st.stack[Len(st.stack)])]
           ELSE visit(edge_list[st.stack[Len(st.stack)]]
                               [st.resolved_n[st.stack[Len(st.stack)]] + 1],
                      [st EXCEPT !.resolved_n[st.stack[Len(st.stack)]] = @ + 1]))

\* for root_item in root_list: ...
RECURSIVE RootLoop(_, _, _)
RootLoop(edge_list, roots, st) ==
    IF st.circular \/ roots = <<>> THEN st
    ELSE RootLoop(edge_list, Tail(roots), ExpandLoop(edge_list, visit(Head(roots), st)))

\* The topological sort over the sorted root list and edge lists.  A new
\* PlanItem has plan_state NULL and resolved_n 0, a PlanItem that an earlier
\* sort ordered is ORDERED; the sorted items are appended to _order.
TopologicalSort(mat, edge_list, root_list) ==
    [RootLoop(edge_list, root_list,
       [plan_state |-> [k \in DOMAIN edge_list |->
                           IF k \in mat.fresh THEN "NULL" ELSE "ORDERED"],
        resolved_n |-> [k \in DOMAIN edge_list |->
                           IF k \in mat.fresh THEN 0 ELSE Len(mat.edge_list[k])],
        stack |-> <<>>, order |-> mat.order, circular |-> FALSE, edge_list |-> edge_list])
     EXCEPT !.plan_state = <<>>, !.resolved_n = <<>>]

\* Plan._do_ordering: order is _order; circular tells that GenericError
\* ("Package has circular dependencies") was raised, stack is then the list
\* of items printed with the error.
_do_ordering(seed, mat) ==
    TopologicalSort(mat, EdgeLists(seed, mat), sort_items(mat.keys))

(***************************************************************************)
(* xbps_utils: the versions of xbps packages.  A string is the sequence of *)
(* its characters.                                                         *)
(***************************************************************************)
DigitChars == <<"0", "1", "2", "3", "4", "5", "6", "7", "8", "9">>

alphas ==
    <<"a", "b", "c", "d", "e", "f", "g", "h", "i", "j", "k", "l", "m",
      "n", "o", "p", "q", "r", "s", "t", "u", "v", "w", "x", "y", "z">>

UpperChars ==
    <<"A", "B", "C", "D", "E", "F", "G", "H", "I", "J", "K", "L", "M",
      "N", "O", "P", "Q", "R", "S", "T", "U", "V", "W", "X", "Y", "Z">>

\* The position of the character in chars, 0 when it is not in it.
PositionIn(chars, ch) ==
    IF \E i \in DOMAIN chars : chars[i] = ch
    THEN CHOOSE i \in DOMAIN chars : chars[i] = ch ELSE 0

\* str.isdigit and int of one character
isdigit(ch) == PositionIn(DigitChars, ch) > 0
DigitValue(ch) == PositionIn(DigitChars, ch) - 1

\* str.lower of one character
lower(ch) ==
    IF PositionIn(UpperChars, ch) > 0 THEN alphas[PositionIn(UpperChars, ch)] ELSE ch

\* v[i:].startswith(m)
startswith(v, i, m) == i + Len(m) - 1 <= Len(v) /\ SubSeq(v, i, i + Len(m) - 1) = m

\* parse_components.modifiers, in the order of the dict
modifiers ==
    << [modifier |-> <<"a", "l", "p", "h", "a">>, prio |-> -3],
       [modifier |-> <<"b", "e", "t", "a">>, prio |-> -2],
       [modifier |-> <<"p", "r", "e">>, prio |-> -1],
       [modifier |-> <<"r", "c">>, prio |-> -1],
       [modifier |-> <<"p", "l">>, prio |-> 0],
       [modifier |-> <<".">>, prio |-> 0] >>

\* The first modifier the string has at position i, 0 when it has none.
ModifierAt(v, i) ==
    IF \E j \in DOMAIN modifiers : startswith(v, i, modifiers[j].modifier)
    THEN CHOOSE j \in DOMAIN modifiers :
           /\ startswith(v, i, modifiers[j].modifier)
           /\ \A h \in 1..(j - 1) : ~startswith(v, i, modifiers[h].modifier)
    ELSE 0

\* The loop over the digits of an integer: its value and the next position.
RECURSIVE IntegerAt(_, _, _)
IntegerAt(v, i, d) ==
    IF i <= Len(v) /\ isdigit(v[i])
    THEN IntegerAt(v, i + 1, (d * 10) + DigitValue(v[i]))
    ELSE [d |-> d, next |-> i]

\* The loop of parse_components over consume_next_token, from position i.
RECURSIVE ConsumeFrom(_, _, _)
ConsumeFrom(v, i, out) ==
    IF i > Len(v) THEN out
    ELSE IF isdigit(v[i])
         THEN ConsumeFrom(v, IntegerAt(v, i, 0).next, Append(out, IntegerAt(v, i, 0).d))
         ELSE IF ModifierAt(v, i) > 0
              THEN ConsumeFrom(v, i + Len(modifiers[ModifierAt(v, i)].modifier),
                               Append(out, modifiers[ModifierAt(v, i)].prio))
              ELSE ConsumeFrom(v, i + 1,
                               IF PositionIn(alphas, lower(v[i])) > 0
                               THEN out \o <<0, PositionIn(alphas, lower(v[i]))>>
                               ELSE out)

\* parse_components
parse_components(v) == ConsumeFrom(v, 1, <<>>)

\* str.split(sep)
RECURSIVE split(_, _)
split(v, sep) ==
    IF PositionIn(v, sep) = 0 THEN <<v>>
    ELSE <<SubSeq(v, 1, PositionIn(v, sep) - 1)>>
           \o split(SubSeq(v, PositionIn(v, sep) + 1, Len(v)), sep)

\* int() of a string of digits; other strings make it raise ValueError (the
\* strings of the model carry no sign and no blank).
IsInteger(v) == v # <<>> /\ \A i \in DOMAIN v : isdigit(v[i])
int(v) == IntegerAt(v, 1, 0).d

\* XbpsVersion(comps, revision), or the exception raised instead.
XbpsVersion(comps, revision) == [comps |-> comps, revision |-> revision, raised |-> "None"]
NoVersion(e) == [comps |-> <<>>, revision |-> 1, raised |-> e]

\* parse_version
parse_version(v, strip_pkgname) ==
    LET w == IF strip_pkgname THEN split(v, "-")[Len(split(v, "-"))] ELSE v
        parts == split(w, "_")
    IN IF Len(parts) > 2 THEN NoVersion("RuntimeError")
       ELSE IF Len(parts) = 2 /\ ~IsInteger(parts[2]) THEN NoVersion("ValueError")
       ELSE XbpsVersion(parse_components(parts[1]),
                        IF Len(parts) = 2 THEN int(parts[2]) ELSE 1)

\* itertools.zip_longest with fillvalue 0, from position i: the difference of
\* the first pair of components that differ, 0 when there is none.
RECURSIVE FirstDifference(_, _, _)
FirstDifference(c1, c2, i) ==
    IF i > Len(c1) /\ i > Len(c2) THEN 0
    ELSE LET x == IF i <= Len(c1) THEN c1[i] ELSE 0
             y == IF i <= Len(c2) THEN c2[i] ELSE 0
         IN IF x # y THEN x - y ELSE FirstDifference(c1, c2, i + 1)

\* compare_version over zip, which stops at the shorter list.
compare_version_zip(v1, v2) ==
    LET m == IF Len(v1.comps) < Len(v2.comps) THEN Len(v1.comps) ELSE Len(v2.comps)
        d == FirstDifference(SubSeq(v1.comps, 1, m), SubSeq(v2.comps, 1, m), 1)
    IN IF d # 0 THEN d
       ELSE IF v1.revision # v2.revision THEN v1.revision - v2.revision ELSE 0

\* compare_version
compare_version(v1, v2) ==
    LET d == FirstDifference(v1.comps, v2.comps, 1)
    IN IF d # 0 THEN d
       ELSE IF v1.revision # v2.revision THEN v1.revision - v2.revision ELSE 0

(***************************************************************************)
(* The file system: fs maps every marker file, directory or repository     *)
(* entry to its modification time, NoTime when it does not exist.  For     *)
(* entries whose time is never read the value only tells existence; the    *)
(* entry build_dir of a tool or package is its build directory, which also *)
(* exists whenever a marker file inside it does.  The entries xbps and     *)
(* remote_pkgver of a package are its entries in the local and the remote  *)
(* repodata; they hold the place of their pkgver in RepoVersions.          *)
(***************************************************************************)
File(m, s) == [mark |-> m, subject |-> s, sysroot |-> NoSysroot]
FileIn(m, s, sid) == [mark |-> m, subject |-> s, sysroot |-> sid]

Sources(c) == {s \in DOMAIN c.yml : s.kind = "src"}
Tools(c) == {Tool(n) : n \in c.tools}
AllStages(c) == UNION {all_stages(c, t) : t \in Tools(c)}

\* The sysroot ids the items of a configuration can carry.
SysrootIds(c) ==
    {NoSysroot} \cup
    (IF c.isolate_sysroots
     THEN {SortedNames(pkg_dependencies(c, q)) : q \in all_pkgs(c)} ELSE {})

AllFiles(c) ==
    {File(m, s) : m \in {"repo", "fetched", "checkedout", "patched", "regenerated",
                         "remote_ahead"}, s \in Sources(c)}
      \cup {File(m, t) : m \in {"build_dir", "configured", "archive"}, t \in Tools(c)}
      \cup {File(m, st) : m \in {"built", "installed"}, st \in AllStages(c)}
      \cup {File(m, q) : m \in {"build_dir", "configured", "staging", "xbps",
                                   "remote_pkgver"}, q \in all_pkgs(c)}
      \cup {FileIn("installed", q, sid) : q \in all_pkgs(c), sid \in SysrootIds(c)}

\* Marker files whose mtime the probes read.
Timestamped(f) ==
    f.mark \in {"fetched", "checkedout", "patched", "regenerated", "built", "archive"}
      \/ (f.mark = "configured")
      \/ (f.mark = "installed" /\ f.subject.kind = "stage")

\* ItemState(missing, updatable, timestamp)
ItemState(m, u, t) == [missing |-> m, updatable |-> u, timestamp |-> t]

\* The probe of a marker file: missing when absent, else its mtime.
MarkerState(fs, f) ==
    IF fs[f] = NoTime THEN ItemState(TRUE, FALSE, NoTime) ELSE ItemState(FALSE, FALSE, fs[f])

\* The probe of an entry whose existence alone counts.
ExistsState(fs, f) ==
    IF fs[f] = NoTime THEN ItemState(TRUE, FALSE, NoTime) ELSE ItemState(FALSE, FALSE, NoTime)

\* ItemSettings.check_remotes as compute_plan sets it (the sources of the
\* model track branches, which level 1 already checks).
check_remotes(p) == IF p.update THEN 1 ELSE 0

\* vcs_utils.check_repo
check_repo(c, p, fs, s) ==
    IF fs[File("repo", s)] = NoTime THEN "MISSING"
    ELSE IF c.vcs = "git" /\ check_remotes(p) >= 1 /\ fs[File("remote_ahead", s)] # NoTime
         THEN "OUTDATED"
         ELSE "GOOD"

\* Source.check_if_fetched
check_if_fetched(c, p, fs, s) ==
    LET r == check_repo(c, p, fs, s)
    IN CASE r = "MISSING" -> ItemState(TRUE, FALSE, NoTime)
         [] r = "OUTDATED" -> ItemState(FALSE, TRUE, NoTime)
         [] OTHER -> ItemState(FALSE, FALSE, fs[File("fetched", s)])

\* HostPackage.check_if_fully_installed
check_if_fully_installed(c, fs, t) ==
    IF \E st \in all_stages(c, t) : fs[File("installed", st)] = NoTime
    THEN ItemState(TRUE, FALSE, NoTime) ELSE ItemState(FALSE, FALSE, NoTime)

\* The versions the repodata entries of the model can hold, counted from 0:
\* the second one is the version pack_pkg gives the packages of the tree.
RepoVersions ==
    << <<"1", ".", "1", "_", "1">>,
       <<"1", ".", "0", "_", "1">>,
       <<"1", ".", "0">>,
       <<"1", ".", "0", "_", "2">>,
       <<"1", ".", "0", "r", "c", "1", "_", "3">>,
       <<"0", ".", "9", "b", "_", "9">> >>

\* TargetPackage.compute_version, as a place in RepoVersions.
BuiltVersion == 1

\* The characters of the name of a package.
NameChars(q) ==
    CASE q.name = "pa" -> <<"p", "a">>
      [] q.name = "pb" -> <<"p", "b">>
      [] OTHER -> <<"p", "k", "g", "-", "x">>

\* rd["pkgver"] of the repodata entry that holds the version at place i.
pkgver_of(q, i) == NameChars(q) \o <<"-">> \o RepoVersions[i + 1]

\* check_if_pull_needed where the remote version is updatable when it is
\* not older.
check_if_pull_needed_or_equal(p, fs, q) ==
    IF fs[File("xbps", q)] # NoTime
    THEN IF /\ check_remotes(p) >= 1
            /\ fs[File("remote_pkgver", q)] # NoTime
            /\ compare_version(parse_version(pkgver_of(q, fs[File("xbps", q)]), TRUE),
                               parse_version(pkgver_of(q, fs[File("remote_pkgver", q)]), TRUE))
                 <= 0
         THEN ItemState(FALSE, TRUE, NoTime) ELSE ItemState(FALSE, FALSE, NoTime)
    ELSE ItemState(TRUE, FALSE, NoTime)

\* TargetPackage.check_if_pull_needed (with the xbps backend); the pkgver
\* strings of the model are well-formed, so that parse_version does not raise.
check_if_pull_needed(p, fs, q) ==
    IF fs[File("xbps", q)] # NoTime
    THEN IF /\ check_remotes(p) >= 1
            /\ fs[File("remote_pkgver", q)] # NoTime
            /\ compare_version(parse_version(pkgver_of(q, fs[File("xbps", q)]), TRUE),
                               parse_version(pkgver_of(q, fs[File("remote_pkgver", q)]), TRUE))
                 < 0
         THEN ItemState(FALSE, TRUE, NoTime) ELSE ItemState(FALSE, FALSE, NoTime)
    ELSE ItemState(TRUE, FALSE, NoTime)

\* PlanItem._determine_state: the visitor of each action.  check_if_packed
\* and check_if_pull_needed raise without the xbps backend; the plans of the
\* model want these actions only with it.
_determine_state(c, p, fs, key) ==
    LET a == key.action
        s == key.subject
    IN CASE a = "FETCH_SRC" -> check_if_fetched(c, p, fs, s)
         [] a = "CHECKOUT_SRC" -> MarkerState(fs, File("checkedout", s))
         [] a = "PATCH_SRC" -> MarkerState(fs, File("patched", s))
         [] a = "REGENERATE_SRC" -> MarkerState(fs, File("regenerated", s))
         [] a = "CONFIGURE_TOOL" -> MarkerState(fs, File("configured", s))
         [] a = "COMPILE_TOOL_STAGE" -> MarkerState(fs, File("built", s))
         [] a = "INSTALL_TOOL_STAGE" -> MarkerState(fs, File("installed", s))
         [] a = "CONFIGURE_PKG" -> MarkerState(fs, File("configured", s))
         [] a = "BUILD_PKG" -> ExistsState(fs, File("staging", s))
         [] a = "PACK_PKG" /\ c.use_xbps -> ExistsState(fs, File("xbps", s))
         [] a = "INSTALL_PKG" ->
              ExistsState(fs, FileIn("installed", s, sysroot_id_of(c, key)))
         [] a = "ARCHIVE_TOOL" -> MarkerState(fs, File("archive", s))
         [] a = "PULL_PKG_PACK" /\ c.use_xbps -> check_if_pull_needed(p, fs, s)
         [] a \in {"PULL_ARCHIVE", "WANT_TOOL"} -> check_if_fully_installed(c, fs, s)
         [] a = "WANT_PKG" ->
              IF c.use_xbps THEN ExistsState(fs, File("xbps", s))
              ELSE ExistsState(fs, File("staging", s))
         [] a \in {"REPRODUCE_BUILD_PKG", "REPRODUCE_PACK_PKG", "ARCHIVE_PKG",
                   "RUN", "RUN_PKG", "RUN_TOOL"} -> ItemState(TRUE, FALSE, NoTime)


\* The files the probe of an item reads.
ProbeFiles(c, key) ==
    LET a == key.action
        s == key.subject
    IN CASE a = "FETCH_SRC" -> {File("repo", s), File("fetched", s), File("remote_ahead", s)}
         [] a = "CHECKOUT_SRC" -> {File("checkedout", s)}
         [] a = "PATCH_SRC" -> {File("patched", s)}
         [] a = "REGENERATE_SRC" -> {File("regenerated", s)}
         [] a \in {"CONFIGURE_TOOL", "CONFIGURE_PKG"} -> {File("configured", s)}
         [] a = "COMPILE_TOOL_STAGE" -> {File("built", s)}
         [] a = "INSTALL_TOOL_STAGE" -> {File("installed", s)}
         [] a \in {"BUILD_PKG", "WANT_PKG"} /\ ~c.use_xbps -> {File("staging", s)}
         [] a = "BUILD_PKG" -> {File("staging", s)}
         [] a \in {"PACK_PKG", "WANT_PKG"} -> {File("xbps", s)}
         [] a = "PULL_PKG_PACK" -> {File("xbps", s), File("remote_pkgver", s)}
         [] a = "INSTALL_PKG" -> {FileIn("installed", s, sysroot_id_of(c, key))}
         [] a = "ARCHIVE_TOOL" -> {File("archive", s)}
         [] a \in {"PULL_ARCHIVE", "WANT_TOOL"} ->
              {File("installed", st) : st \in all_stages(c, s)}
         [] OTHER -> {}

(***************************************************************************)
(* Plan._do_activation                                                     *)
(***************************************************************************)
ItemEdges(item, key) == item[key].build_edges \cup item[key].require_edges

\* activate(root_key): the while loop over self._stack; visit(edges) marks
\* every edge visited and pushes those whose probe reports missing.  The
\* result does not depend on the order in which the stack is popped.
\* A visit(edges) that pushes every edge.
edge_always_pushed(state, edge) == TRUE

\* The probe of an edge as visit(edges) reads it.
edge_is_missing(state, edge) == state[edge].missing

RECURSIVE ActivateLoop(_, _, _, _)
ActivateLoop(item, state, st, todo) ==
    IF todo = {} THEN st
    ELSE LET key == CHOOSE k \in todo : TRUE
             new == IF key \in st.active THEN {} ELSE ItemEdges(item, key) \ st.visited
         IN ActivateLoop(item, state,
              [st EXCEPT !.active = @ \cup {key}, !.visited = @ \cup new],
              (todo \ {key}) \cup {e \in new : edge_is_missing(state, e)})

activate(item, state, root_key, st) ==
    ActivateLoop(item, state, [st EXCEPT !.visited = @ \cup {root_key}], {root_key})

\* A wanted item that is activated whatever check says.
wanted_always_activated(p, state, key) == TRUE

\* if not self.check or item.is_missing
wanted_is_activated(p, state, key) == ~p.check \/ state[key].missing

\* for action, subject in self.wanted: ...
RECURSIVE ActivateWanted(_, _, _, _, _)
ActivateWanted(p, item, state, todo, st) ==
    IF todo = {} THEN st
    ELSE LET key == CHOOSE k \in todo : TRUE
         IN ActivateWanted(p, item, state, todo \ {key},
              IF wanted_is_activated(p, state, key)
              THEN activate(item, state, key, [st EXCEPT !.build_span = @ \cup {key}])
              ELSE [st EXCEPT !.build_span = @ \cup {key}])

\* for item in reversed(self._order): propagate build_span over build edges.
RECURSIVE BuildSpan(_, _, _, _)
BuildSpan(item, order, i, st) ==
    IF i = 0 THEN st
    ELSE IF order[i] \in st.build_span
         THEN BuildSpan(item, order, i - 1,
                [st EXCEPT !.build_span = @ \cup item[order[i]].build_edges])
         ELSE BuildSpan(item, order, i - 1, st)

\* An is_outdated that never fires.
is_never_outdated(state, key, dep) == FALSE

is_outdated(state, key, dep) ==
    IF state[key].timestamp = NoTime \/ state[dep].timestamp = NoTime THEN FALSE
    ELSE state[dep].timestamp > state[key].timestamp

\* An update loop that does not look at the activity of a dependency.
dep_never_active(st, dep) == FALSE

\* if dep_item.active
dep_is_active(st, dep) == dep \in st.active

\* for dep_pair in <edges>: activate on active or outdated dependencies.
\* Activating an item again changes nothing, so one activation stands for
\* those of all its edges.
UpdateEdges(item, state, key, deps, st) ==
    IF \E dep \in deps : dep_is_active(st, dep) \/ is_outdated(state, key, dep)
    THEN activate(item, state, key,
           IF \E dep \in deps : ~dep_is_active(st, dep) /\ is_outdated(state, key, dep)
           THEN [st EXCEPT !.outdated = @ \cup {key}] ELSE st)
    ELSE st

\* An update loop that looks at the require edges whatever recursive says.
edges_of_recursive(p, item, key) == ItemEdges(item, key)

\* An update loop that looks at the build edges whatever recursive says.
edges_of_update(p, item, key) == item[key].build_edges

\* The edges the update loop looks at: the build edges, and with recursive
\* the require edges too.
edges_for_update(p, item, key) ==
    IF p.recursive THEN ItemEdges(item, key) ELSE item[key].build_edges

\* An update loop that passes over no item.
skips_nothing(p, st, key) == FALSE

\* if self.restrict_updates and not item.build_span: continue
skips_off_span(p, st, key) == p.restrict_updates /\ key \notin st.build_span

\* The body of the loop that handles --update and --recursive for one item.
UpdateItem(p, item, state, key, st) ==
    IF skips_off_span(p, st, key) THEN st
    ELSE UpdateEdges(item, state, key, edges_for_update(p, item, key),
           IF state[key].missing \/ state[key].updatable
           THEN activate(item, state, key, st) ELSE st)

\* for item in self._order: ...; the items are handled one after the other,
\* each on the flags the items before it left.
RECURSIVE UpdateLoop(_, _, _, _, _, _)
UpdateLoop(p, item, state, order, i, st) ==
    IF i > Len(order) THEN st
    ELSE LET next == UpdateItem(p, item, state, order[i], st)
         IN IF next = st THEN UpdateLoop(p, item, state, order, i + 1, st)
            ELSE UpdateLoop(p, item, state, order, i + 1, next)

\* Handle --update and --recursive.
UpdateAll(p, item, state, order, st) ==
    IF p.update \/ p.recursive THEN UpdateLoop(p, item, state, order, 1, st) ELSE st

\* Plan._do_activation: the active items, the build span and the items
\* found outdated.  A new PlanItem is inactive, off the build span and not
\* outdated; _visited_for_activation is kept from call to call.
_do_activation(p, mat, state, order) ==
    UpdateAll(p, mat.item, state, order,
      BuildSpan(mat.item, order, Len(order),
        ActivateWanted(p, mat.item, state, p.wanted,
          [active |-> mat.active \ mat.fresh, visited |-> mat.visited_for_activation,
           build_span |-> mat.build_span \ mat.fresh,
           outdated |-> mat.outdated \ mat.fresh])))

(***************************************************************************)
(* The action handlers.  A handler ends in one of these ways:              *)
(*   "success"   it returns and its tools exited with status zero;         *)
(*   "unchecked" it returns although a tool run through subprocess.call    *)
(*               exited non-zero (pack_pkg and pull_pkg_pack do not look   *)
(*               at the exit status of xbps-create and xbps-rindex);       *)
(*   "failure"   it raises CalledProcessError, ProgramFailureError or      *)
(*               ExecutionFailureError;                                    *)
(*   "error"     it raises another exception (GenericError from a failed   *)
(*               fetch, a checksum mismatch, a rolling id mismatch, a      *)
(*               failed reproduction; OSError; a download error).          *)
(***************************************************************************)
\* Handlers of which that of a WANT_* item can succeed like the others.
Outcomes_want_succeeds(c, key) == {"success", "failure", "error"}

Outcomes(c, key) ==
    LET a == key.action
    IN CASE a \in {"WANT_TOOL", "WANT_PKG"} -> {"failure"}
         [] a \in {"PACK_PKG", "PULL_PKG_PACK"} -> {"success", "unchecked", "error"}
         [] a \in {"ARCHIVE_TOOL", "ARCHIVE_PKG", "PULL_ARCHIVE"} -> {"success", "error"}
         [] OTHER -> {"success", "failure", "error"}

Touch(fs, f, t) == [fs EXCEPT ![f] = t]
Remove(fs, R) == [f \in DOMAIN fs |-> IF f \in R THEN NoTime ELSE fs[f]]

\* try_rmtree(pkg.build_dir) of a tool: the configured marker and the built
\* markers of all its stages live there.
ToolBuildDir(c, t) == {File("configured", t)} \cup {File("built", st) : st \in all_stages(c, t)}

\* fetch_src: fetch_repo, then mark_as_fetched.
fetch_src(c, fs, s, t) ==
    Touch(Touch(Touch(fs, File("repo", s), t), File("remote_ahead", s), NoTime),
          File("fetched", s), t)

\* fetch_repo of an archive writes the file before it validates the checksum;
\* a failed git fetch leaves the tree as it was.
fetch_src_raises(c, fs, s, t) ==
    IF c.vcs = "url" THEN Touch(fs, File("repo", s), t) ELSE fs

\* Mutation of new_tool_build_dir: the build directory is kept.
kept_tool_build_dir(c, fs, tool, t) == Touch(fs, File("build_dir", tool), t)

\* try_rmtree(pkg.build_dir); try_mkdir(pkg.build_dir) of a tool.
new_tool_build_dir(c, fs, tool, t) == Touch(Remove(fs, ToolBuildDir(c, tool)), File("build_dir", tool), t)

\* try_rmtree(pkg.build_dir); try_mkdir(pkg.build_dir) of a package.
new_pkg_build_dir(c, fs, q, t) == Touch(Remove(fs, {File("configured", q)}), File("build_dir", q), t)

\* configure_tool
configure_tool(c, fs, tool, t) ==
    Touch(new_tool_build_dir(c, fs, tool, t), File("configured", tool), t)

\* configure_pkg
configure_pkg(c, fs, q, t) == Touch(new_pkg_build_dir(c, fs, q, t), File("configured", q), t)

\* pull_archive: the downloaded archive replaces the prefix directory; an
\* archive written by archive_tool holds the installed markers.
pull_archive(c, fs, tool, t) ==
    [f \in DOMAIN fs |->
        IF f = File("archive", tool) \/ (f.mark = "installed" /\ f.subject \in all_stages(c, tool))
        THEN t ELSE fs[f]]

\* pack_pkg: xbps-rindex enters the package with its version.
pack_pkg(c, fs, q, t) == Touch(fs, File("xbps", q), BuiltVersion)

\* pull_pkg_pack: xbps-rindex enters the package with the remote pkgver;
\* without a remote entry it raises.
pull_pkg_pack(c, fs, q, t) ==
    IF fs[File("remote_pkgver", q)] = NoTime THEN fs
    ELSE Touch(fs, File("xbps", q), fs[File("remote_pkgver", q)])

\* The file system after the handler of an item returned with every tool
\* succeeding, at time t.
HandlerSuccess(c, fs, key, t) ==
    LET a == key.action
        s == key.subject
    IN CASE a = "FETCH_SRC" -> fetch_src(c, fs, s, t)
         [] a = "CHECKOUT_SRC" -> Touch(fs, File("checkedout", s), t)
         [] a = "PATCH_SRC" -> Touch(fs, File("patched", s), t)
         [] a = "REGENERATE_SRC" -> Touch(fs, File("regenerated", s), t)
         [] a = "CONFIGURE_TOOL" -> configure_tool(c, fs, s, t)
         [] a = "COMPILE_TOOL_STAGE" -> Touch(fs, File("built", s), t)
         [] a = "INSTALL_TOOL_STAGE" -> Touch(fs, File("installed", s), t)
         [] a = "CONFIGURE_PKG" -> configure_pkg(c, fs, s, t)
         [] a = "BUILD_PKG" -> Touch(fs, File("staging", s), t)
         [] a = "PACK_PKG" -> pack_pkg(c, fs, s, t)
         [] a = "INSTALL_PKG" -> Touch(fs, FileIn("installed", s, sysroot_id_of(c, key)), t)
         [] a = "ARCHIVE_TOOL" -> Touch(fs, File("archive", s), t)
         [] a = "PULL_PKG_PACK" -> pull_pkg_pack(c, fs, s, t)
         [] a = "PULL_ARCHIVE" -> pull_archive(c, fs, s, t)
         [] OTHER -> fs

\* The file system a handler leaves behind when it raises.
HandlerRaises(c, fs, key, t) ==
    LET a == key.action
        s == key.subject
    IN CASE a = "FETCH_SRC" -> fetch_src_raises(c, fs, s, t)
         [] a = "CONFIGURE_TOOL" -> new_tool_build_dir(c, fs, s, t)
         [] a = "CONFIGURE_PKG" -> new_pkg_build_dir(c, fs, s, t)
         [] OTHER -> fs

HandlerEffect(c, fs, key, outcome, t) ==
    CASE outcome = "success" -> HandlerSuccess(c, fs, key, t)
      [] outcome = "unchecked" -> fs
      [] OTHER -> HandlerRaises(c, fs, key, t)

(***************************************************************************)
(* The plans and file systems a run starts from.                           *)
(***************************************************************************)
\* Plan.__init__ with the flags handle_plan_args sets.
NewPlan(w) ==
    [ wanted |-> w, check |-> FALSE, update |-> FALSE, recursive |-> FALSE,
      restrict_updates |-> FALSE, keep_going |-> FALSE, only_wanted |-> FALSE,
      dry_run |-> FALSE, build_scope |-> NoScope, use_auto_scope |-> FALSE,
      pull_out_of_scope |-> FALSE ]

\* The wanted sets of the command lines considered for each configuration.
Goals(c) ==
    CASE c.id = "tool" ->
           { {PlanKey("INSTALL_TOOL_STAGE", Stage("ta", NoName))},
             {PlanKey("FETCH_SRC", Src("ta")), PlanKey("INSTALL_TOOL_STAGE", Stage("ta", NoName))},
             {PlanKey("ARCHIVE_TOOL", Tool("ta"))} }
      [] c.id = "twotools" ->
           { {PlanKey("CONFIGURE_TOOL", Tool("ta")), PlanKey("CONFIGURE_TOOL", Tool("tb"))},
             {PlanKey("INSTALL_TOOL_STAGE", Stage("tb", "x")),
              PlanKey("INSTALL_TOOL_STAGE", Stage("tb", "y"))},
             {PlanKey("COMPILE_TOOL_STAGE", Stage("tb", "y"))} }
      [] c.id = "pkgs" ->
           { {PlanKey("INSTALL_PKG", Pkg("pa"))},
             {PlanKey("INSTALL_PKG", Pkg("pa")), PlanKey("RUN", Task("ka"))},
             {PlanKey("BUILD_PKG", Pkg("pa")), PlanKey("ARCHIVE_PKG", Pkg("pb"))} }
      [] c.id = "xbps" ->
           { {PlanKey("INSTALL_PKG", Pkg("pa"))},
             {PlanKey("PACK_PKG", Pkg("pa")), PlanKey("PULL_PKG_PACK", Pkg("pb"))},
             {PlanKey("PULL_PKG_PACK", Pkg("pa"))} }
      [] c.id = "cycle" ->
           { {PlanKey("INSTALL_PKG", Pkg("pa"))},
             {PlanKey("INSTALL_PKG", Pkg("pb"))},
             {PlanKey("FETCH_SRC", Src("pa")), PlanKey("PATCH_SRC", Src("pa"))} }

\* The jobs of the pipeline considered for each configuration: do_run_job
\* wants the archive of each tool and the build of each package of the job
\* and sets build_scope to the tools and packages of the job.
Jobs(c) ==
    CASE c.id = "twotools" ->
           { [wanted |-> {PlanKey("ARCHIVE_TOOL", Tool("tb"))}, build_scope |-> {Tool("tb")}] }
      [] c.id = "pkgs" ->
           { [wanted |-> {PlanKey("BUILD_PKG", Pkg("pa"))}, build_scope |-> {Pkg("pa")}] }
      [] OTHER -> {}

\* The plans of the commands and of the jobs.
Commands(c) == {[wanted |-> w, build_scope |-> NoScope] : w \in Goals(c)} \cup Jobs(c)

\* The sets of at most k elements of V.
RECURSIVE SubsetsUpTo(_, _)
SubsetsUpTo(V, k) ==
    IF k = 0 THEN {{}}
    ELSE LET S == SubsetsUpTo(V, k - 1) IN S \cup {X \cup {x} : X \in S, x \in V}

\* A tree in which nothing was built yet ("clean"), or one in which every
\* step ran at time 1 ("built").  Temporary sysroots are created empty with
\* the plan, the remotes have nothing new: the remote repodata holds the
\* packages as the tree builds them.
BaseValue(base, f) ==
    IF f.mark = "remote_pkgver" THEN BuiltVersion
    ELSE IF base = "clean" \/ f.sysroot # NoSysroot \/ f.mark = "remote_ahead"
         THEN NoTime ELSE 1

\* The other values an entry can have.  The time of a marker is read only by
\* plans with update or recursive set.
OtherValues(p, base, f) ==
    (IF Timestamped(f) /\ (p.update \/ p.recursive) THEN 0..MaxTime ELSE 0..1)
      \ {BaseValue(base, f)}

\* The entries the probes of the plan read; a plan that fails with a cycle
\* probes nothing.
ProbedBy(c, mat, ord) ==
    IF ord.circular THEN {}
    ELSE {f \in UNION {ProbeFiles(c, k) : k \in DOMAIN mat.item} : f.sysroot = NoSysroot}

ProbedIn(c, mat) == ProbedBy(c, mat, _do_ordering(0, mat))

Probed(c, p) == ProbedIn(c, _do_materialization(c, p, 0))

\* The trees that differ from a base tree in at most dirty probed entries.
FsChoices(c, p, dirty) ==
    UNION { UNION { { [f \in AllFiles(c) |-> IF f \in D THEN g[f] ELSE BaseValue(base, f)] :
                       g \in {h \in [D -> 0..MaxTime] :
                                \A f \in D : h[f] \in OtherValues(p, base, f)} } :
                     D \in SubsetsUpTo(Probed(c, p), dirty) } :
            base \in {"clean", "built"} }

(***************************************************************************)
(* The state of one invocation: the configuration and the Plan object, the *)
(* file system, and the position of run_plan.                              *)
(***************************************************************************)
VARIABLES
    cfg,              \* the Config
    plan,             \* the Plan's wanted set and policy flags
    seed,             \* the iteration order of the sets of this process
    fs,               \* the file system
    pc,               \* "init", "running", "returned" or "raised"
    items,            \* the keys of Plan._items, in insertion order
    _items,           \* Plan._items: the edges of the PlanItem of every key
    order,            \* Plan._order
    edge_list,        \* PlanItem.edge_list of every item
    stack,            \* the items printed with the cycle error
    _state,           \* PlanItem._state, the cached probe of every item
    active,           \* the items with PlanItem.active
    build_span,       \* the items with PlanItem.build_span
    outdated,         \* the items with PlanItem.outdated
    scheduled,        \* run_plan's list of the active items in order
    exec_status,      \* PlanItem.exec_status of every item
    n,                \* run_plan's loop index into scheduled, from 1
    any_failed_items, \* run_plan's flag
    raised,           \* the exception run_plan ended with, "None" if none
    invoked,          \* the handlers invoked so far, with how each ended
    _visited_for_materialization,  \* Plan._visited_for_materialization
    _visited_for_activation,       \* Plan._visited_for_activation
    call,             \* the function called outside of a plan and its arguments
    result            \* what that call returned

vars == <<cfg, plan, seed, fs, pc, items, _items, order, edge_list, stack, _state, active,
          build_span, outdated, scheduled, exec_status, n, any_failed_items, raised,
          invoked, _visited_for_materialization, _visited_for_activation, call, result>>

called == <<call, result>>
inputs == <<cfg, plan, seed, called>>
planned == <<items, _items, order, edge_list, stack, _state, active, build_span, outdated,
             scheduled, _visited_for_materialization, _visited_for_activation>>

\* ExecutionStatus
ExecutionStatus == {"NULL", "SUCCESS", "STEP_FAILED", "PREREQS_FAILED", "NOT_WANTED"}

\* No call, and nothing returned.
NoCall == <<>>

\* The state after Plan(cfg) was constructed and filled in by the command,
\* or before the call cl of a function.
InitCalling(p, s, f, cl) ==
    /\ plan = p /\ seed = s /\ fs = f
    /\ call = cl /\ result = NoCall
    /\ pc = "init"
    /\ items = <<>> /\ _items = <<>> /\ order = <<>> /\ edge_list = <<>> /\ stack = <<>>
    /\ _state = <<>> /\ active = {} /\ build_span = {} /\ outdated = {}
    /\ scheduled = <<>> /\ exec_status = <<>>
    /\ n = 1 /\ any_failed_items = FALSE /\ raised = "None" /\ invoked = <<>>
    /\ _visited_for_materialization = {} /\ _visited_for_activation = {}

InitWith(p, s, f) == InitCalling(p, s, f, NoCall)

Bool == {FALSE, TRUE}

\* Runs of plans under the flags of the driver; a job has no only_wanted.
Init ==
    /\ cfg \in Configs
    /\ \E g \in Commands(cfg), ch \in Bool, kg \in Bool, ow \in Bool, dr \in Bool :
         LET p == [NewPlan(g.wanted) EXCEPT !.build_scope = g.build_scope, !.check = ch,
                                            !.keep_going = kg, !.only_wanted = ow,
                                            !.dry_run = dr]
         IN /\ dr => (~kg /\ ~ow)
            /\ g.build_scope # NoScope => ~ow
            /\ \E f \in FsChoices(cfg, p, MaxDirty) : InitWith(p, 0, f)

\* Dry runs of plans under the flags of the activation.  restrict_updates,
\* which no command sets (a caller of Plan may), is taken together with
\* check and with update or recursive, the flags it restricts.
InitPlan ==
    /\ cfg \in Configs
    /\ \E w \in Goals(cfg), ch \in Bool, up \in Bool, rec \in Bool, ru \in Bool :
         LET p == [NewPlan(w) EXCEPT !.check = ch, !.update = up, !.recursive = rec,
                                     !.restrict_updates = ru, !.dry_run = TRUE]
         IN /\ ru => ((up \/ rec) /\ ch)
            /\ \E f \in FsChoices(cfg, p, MaxDirty) : InitWith(p, 0, f)

\* Dry runs of plans under every iteration order of the sets.
InitOrder ==
    /\ cfg \in Configs
    /\ \E w \in Goals(cfg), s \in 0..MaxSeed :
         LET p == [NewPlan(w) EXCEPT !.dry_run = TRUE]
         IN \E f \in FsChoices(cfg, p, 0) : InitWith(p, s, f)

\* The probes of the items, which each PlanItem caches in _state.
ProbeAll(c, p, f, mat) ==
    [k \in DOMAIN mat.item |->
        IF k \in mat.fresh THEN _determine_state(c, p, f, k) ELSE mat.state[k]]

\* A scheduled list that holds the inactive items of the order too.
Scheduled_whole_order(mat, ord, act) == ord

\* scheduled = [item for item in self._order if item.active].  _order keeps
\* the PlanItems an earlier call appended: one whose key got a new PlanItem
\* in this call is no longer the item of _items and has the active flag the
\* earlier call left.
Scheduled(mat, ord, act) ==
    SelectIn(SubSeq(ord, 1, Len(mat.order)),
             (act \ mat.fresh) \cup (mat.active \cap mat.fresh))
      \o SelectIn(SubSeq(ord, Len(mat.order) + 1, Len(ord)), act)

\* The Plan after _do_activation.
Activated(mat, ord, state, act) ==
    [ keys |-> mat.keys, item |-> mat.item, order |-> ord.order,
      edge_list |-> ord.edge_list, circular |-> FALSE, runtime_error |-> FALSE,
      stack |-> <<>>, state |-> state,
      active |-> act.active, build_span |-> act.build_span, outdated |-> act.outdated,
      visited_for_materialization |-> mat.visited, visited_for_activation |-> act.visited,
      scheduled |-> Scheduled(mat, ord.order, act.active) ]

Probe(p, mat, ord, state) ==
    Activated(mat, ord, state, _do_activation(p, mat, state, ord.order))

\* The Plan after _do_ordering: on a cycle it raised and nothing is activated.
Ordered(c, p, f, mat, ord) ==
    IF ord.circular
    THEN [ keys |-> mat.keys, item |-> mat.item, order |-> ord.order,
           edge_list |-> ord.edge_list, circular |-> TRUE, runtime_error |-> FALSE,
           stack |-> ord.stack,
           state |-> <<>>, active |-> {}, build_span |-> {}, outdated |-> {},
           visited_for_materialization |-> mat.visited,
           visited_for_activation |-> mat.visited_for_activation, scheduled |-> <<>> ]
    ELSE Probe(p, mat, ord, ProbeAll(c, p, f, mat))

\* The Plan after _do_materialization: when _materialize_item raised
\* RuntimeError, the items made so far are in _items and nothing is ordered.
Materialized(c, p, s, f, mat) ==
    IF mat.stack # <<>>
    THEN [ keys |-> mat.keys, item |-> mat.item, order |-> mat.order,
           edge_list |-> mat.edge_list, circular |-> FALSE, runtime_error |-> TRUE,
           stack |-> <<>>, state |-> <<>>, active |-> {}, build_span |-> {},
           outdated |-> {}, visited_for_materialization |-> mat.visited,
           visited_for_activation |-> mat.visited_for_activation, scheduled |-> <<>> ]
    ELSE Ordered(c, p, f, mat, _do_ordering(s, mat))

\* The build directory of a tool or package exists.
build_dir_exists(c, f, s) ==
    \/ f[File("build_dir", s)] # NoTime
    \/ \E g \in (IF s.kind = "tool" THEN ToolBuildDir(c, s) ELSE {File("configured", s)}) :
         f[g] # NoTime

\* Plan._compute_auto_scope: the build_scope it leaves.
_compute_auto_scope(c, p, f) ==
    IF p.build_scope # NoScope THEN p.build_scope
    ELSE {w.subject : w \in {k \in p.wanted :
             k.action \in {"CONFIGURE_TOOL", "COMPILE_TOOL_STAGE", "CONFIGURE_PKG",
                           "BUILD_PKG", "REPRODUCE_BUILD_PKG"}}}
           \cup UNION {{t} \cup all_stages(c, t) :
                         t \in {u \in Tools(c) : build_dir_exists(c, f, u)}}
           \cup {q \in all_pkgs(c) : build_dir_exists(c, f, q)}

\* if self.use_auto_scope: self._compute_auto_scope()
auto_scoped(c, p, f) ==
    IF p.use_auto_scope THEN [p EXCEPT !.build_scope = _compute_auto_scope(c, p, f)] ELSE p

\* compute_plan once the scope is settled.
compute_plan_in(c, p, s, f, pl) == Materialized(c, p, s, f, _do_materialization_of(c, p, s, pl))

\* Plan.compute_plan on a Plan object.
compute_plan_of(c, p, s, f, pl) == compute_plan_in(c, auto_scoped(c, p, f), s, f, pl)

\* Plan.compute_plan on a new Plan.
compute_plan(c, p, s, f) == compute_plan_of(c, p, s, f, BlankPlan)

\* run_plan up to the loop, given the computed plan: the scheduled list and
\* the dry_run return.  A cycle ends it with GenericError.
RunPlanWith(r) ==
    /\ items' = r.keys
    /\ _items' = r.item
    /\ order' = r.order
    /\ edge_list' = r.edge_list
    /\ stack' = r.stack
    /\ _state' = r.state
    /\ active' = r.active
    /\ build_span' = r.build_span
    /\ outdated' = r.outdated
    /\ _visited_for_materialization' = r.visited_for_materialization
    /\ _visited_for_activation' = r.visited_for_activation
    /\ exec_status' = [k \in DOMAIN r.item |-> "NULL"]
    /\ scheduled' = r.scheduled
    /\ raised' = IF r.circular THEN "GenericError"
                 ELSE IF r.runtime_error THEN "RuntimeError" ELSE "None"
    /\ pc' = IF r.circular \/ r.runtime_error THEN "raised"
             ELSE IF plan.dry_run THEN "returned" ELSE "running"

ComputePlan ==
    /\ pc = "init"
    /\ RunPlanWith(compute_plan(cfg, plan, seed, fs))
    /\ plan' = auto_scoped(cfg, plan, fs)
    /\ UNCHANGED <<cfg, seed, fs, n, any_failed_items, invoked, called>>

\* The item the loop of run_plan is at.
AtItem == pc = "running" /\ n <= Len(scheduled)

\* Mutation of any_failed_edges: the statuses of the edge targets are not
\* looked at.
no_failed_edges(item) == FALSE

\* any_failed_edges of the item.
any_failed_edges(item) ==
    \E i \in 1..Len(edge_list[item]) :
        /\ edge_list[item][i] \in active
        /\ exec_status[edge_list[item][i]] # "SUCCESS"

\* The iteration that skips an item whose prerequisites failed.
SkipItem ==
    /\ AtItem
    /\ plan.keep_going /\ any_failed_edges(scheduled[n])
    /\ exec_status' = [exec_status EXCEPT ![scheduled[n]] = "PREREQS_FAILED"]
    /\ any_failed_items' = TRUE
    /\ n' = n + 1
    /\ UNCHANGED <<inputs, fs, pc, planned, raised, invoked>>

\* A driver that refuses no item.
refuses_nothing(p, key) == FALSE

\* if self.only_wanted and (action, subject) not in self.wanted
not_wanted(p, key) == p.only_wanted /\ PlanKey(key.action, key.subject) \notin p.wanted

\* The iteration that refuses an item that is not wanted.
RejectItem ==
    /\ AtItem
    /\ ~(plan.keep_going /\ any_failed_edges(scheduled[n]))
    /\ not_wanted(plan, scheduled[n])
    /\ IF ~plan.keep_going
       THEN /\ raised' = "ExecutionFailureError"
            /\ pc' = "raised"
            /\ UNCHANGED <<exec_status, any_failed_items, n>>
       ELSE /\ exec_status' = [exec_status EXCEPT ![scheduled[n]] = "NOT_WANTED"]
            /\ any_failed_items' = TRUE
            /\ n' = n + 1
            /\ UNCHANGED <<raised, pc>>
    /\ UNCHANGED <<inputs, fs, planned, invoked>>

\* A driver that goes on after a failure whatever keep_going says.
always_keeps_going(p) == TRUE

\* if not self.keep_going: raise ExecutionFailureError(action, subject)
keeps_going(p) == p.keep_going

\* The iteration that runs the handler of an item.
RunItem ==
    /\ AtItem
    /\ ~(plan.keep_going /\ any_failed_edges(scheduled[n]))
    /\ ~not_wanted(plan, scheduled[n])
    /\ \E outcome \in Outcomes(cfg, scheduled[n]) :
         /\ invoked' = Append(invoked, [key |-> scheduled[n], outcome |-> outcome])
         /\ fs' = HandlerEffect(cfg, fs, scheduled[n], outcome, MaxTime + n)
         /\ CASE outcome \in {"success", "unchecked"} ->
                   /\ exec_status' = [exec_status EXCEPT ![scheduled[n]] = "SUCCESS"]
                   /\ n' = n + 1
                   /\ UNCHANGED <<any_failed_items, raised, pc>>
              [] outcome = "failure" ->
                   /\ exec_status' = [exec_status EXCEPT ![scheduled[n]] = "STEP_FAILED"]
                   /\ IF ~keeps_going(plan)
                      THEN /\ raised' = "ExecutionFailureError"
                           /\ pc' = "raised"
                           /\ UNCHANGED <<any_failed_items, n>>
                      ELSE /\ any_failed_items' = TRUE
                           /\ n' = n + 1
                           /\ UNCHANGED <<raised, pc>>
              [] outcome = "error" ->
                   /\ raised' = "GenericError"
                   /\ pc' = "raised"
                   /\ UNCHANGED <<exec_status, any_failed_items, n>>
    /\ UNCHANGED <<inputs, planned>>

\* After the loop: PlanFailureError if any item failed.
Finish ==
    /\ pc = "running" /\ n > Len(scheduled)
    /\ IF any_failed_items
       THEN raised' = "PlanFailureError" /\ pc' = "raised"
       ELSE raised' = "None" /\ pc' = "returned"
    /\ UNCHANGED <<inputs, fs, planned, exec_status, n, any_failed_items, invoked>>

Next == ComputePlan \/ SkipItem \/ RejectItem \/ RunItem \/ Finish

Spec == Init /\ [][Next]_vars

NextPlan == ComputePlan

SpecPlan == InitPlan /\ [][NextPlan]_vars

SpecOrder == InitOrder /\ [][NextPlan]_vars

(***************************************************************************)
(* compute_plan called on a Plan, and run_plan called on it afterwards:    *)
(* run_plan calls compute_plan again, on the Plan object as the first call *)
(* left it.  wanted, the flags and the file system are the same in both.   *)
(***************************************************************************)
\* The Plan object as the variables hold it.
ThePlan ==
    [ visited |-> _visited_for_materialization, stack |-> <<>>, keys |-> items,
      item |-> _items, fresh |-> {}, order |-> order, edge_list |-> edge_list,
      state |-> _state, active |-> active, build_span |-> build_span,
      outdated |-> outdated, visited_for_activation |-> _visited_for_activation ]

\* The fields of the Plan after compute_plan; run tells that run_plan made
\* the call, which then builds its scheduled list and returns (dry_run).
PlanStored(r, run) ==
    /\ items' = r.keys
    /\ _items' = r.item
    /\ order' = r.order
    /\ edge_list' = r.edge_list
    /\ stack' = r.stack
    /\ _state' = r.state
    /\ active' = r.active
    /\ build_span' = r.build_span
    /\ outdated' = r.outdated
    /\ _visited_for_materialization' = r.visited_for_materialization
    /\ _visited_for_activation' = r.visited_for_activation
    /\ exec_status' = [k \in DOMAIN r.item |-> "NULL"]
    /\ scheduled' = IF run THEN r.scheduled ELSE <<>>
    /\ raised' = IF r.circular THEN "GenericError"
                 ELSE IF r.runtime_error THEN "RuntimeError" ELSE "None"
    /\ pc' = IF r.circular \/ r.runtime_error THEN "raised"
             ELSE IF run THEN "returned" ELSE "planned"

\* plan.compute_plan() called by the user of the Plan.
CallComputePlan ==
    /\ pc = "init"
    /\ PlanStored(compute_plan(cfg, plan, seed, fs), FALSE)
    /\ plan' = auto_scoped(cfg, plan, fs)
    /\ UNCHANGED <<cfg, seed, fs, n, any_failed_items, invoked, called>>

\* plan.run_plan() called after it, with dry_run set.
RunPlanAgain ==
    /\ pc = "planned"
    /\ PlanStored(compute_plan_of(cfg, plan, seed, fs, ThePlan), TRUE)
    /\ plan' = auto_scoped(cfg, plan, fs)
    /\ UNCHANGED <<cfg, seed, fs, n, any_failed_items, invoked, called>>

\* Dry runs under check and update, from every iteration order of the sets.
InitTwice ==
    /\ cfg \in Configs
    /\ \E w \in Goals(cfg), ch \in Bool, up \in Bool, s \in 0..MaxSeed :
         LET p == [NewPlan(w) EXCEPT !.check = ch, !.update = up, !.dry_run = TRUE]
         IN \E f \in FsChoices(cfg, p, IF s = 0 THEN MaxDirty ELSE 0) : InitWith(p, s, f)

NextTwice == CallComputePlan \/ RunPlanAgain

SpecTwice == InitTwice /\ [][NextTwice]_vars

(***************************************************************************)
(* Plans under a build scope: the jobs of the pipeline set build_scope, a  *)
(* site file with auto_pull makes compute_plan derive it and makes         *)
(* requirements out of scope pull.  The same commands run on sites without *)
(* auto_pull, where nothing is out of scope.                               *)
(***************************************************************************)
\* Plan.__init__ on a configuration: if self.cfg.auto_pull.
Plan_init(c, w) ==
    [NewPlan(w) EXCEPT !.use_auto_scope = c.auto_pull, !.pull_out_of_scope = c.auto_pull]

\* The wanted sets of the command lines considered under a scope.
ScopeGoals(c) ==
    CASE c.id = "twotools" ->
           { {PlanKey("INSTALL_TOOL_STAGE", Stage("tb", "x"))},
             {PlanKey("CONFIGURE_TOOL", Tool("tb"))},
             {PlanKey("CONFIGURE_TOOL", Tool("ta")), PlanKey("COMPILE_TOOL_STAGE", Stage("tb", "y"))},
             {PlanKey("COMPILE_TOOL_STAGE", Stage("ta", NoName)),
              PlanKey("INSTALL_TOOL_STAGE", Stage("tb", "x"))} }
      [] c.id = "pkgs" ->
           { {PlanKey("INSTALL_PKG", Pkg("pa"))},
             {PlanKey("CONFIGURE_PKG", Pkg("pa"))},
             {PlanKey("BUILD_PKG", Pkg("pb")), PlanKey("INSTALL_PKG", Pkg("pa"))} }
      [] c.id = "xbps" ->
           { {PlanKey("INSTALL_PKG", Pkg("pa"))},
             {PlanKey("BUILD_PKG", Pkg("pa"))},
             {PlanKey("CONFIGURE_PKG", Pkg("pb")), PlanKey("PACK_PKG", Pkg("pa"))} }
      [] c.id = "tasks" ->
           { {PlanKey("RUN", Task("ka"))},
             {PlanKey("BUILD_PKG", Pkg("pa"))},
             {PlanKey("REPRODUCE_BUILD_PKG", Pkg("pa")), PlanKey("REPRODUCE_PACK_PKG", Pkg("pa"))},
             {PlanKey("ARCHIVE_PKG", Pkg("pa")), PlanKey("RUN_PKG", PkgTask("pa", "ka"))},
             {PlanKey("RUN_TOOL", ToolTask("ta", "ka"))} }

\* The jobs considered: do_run_job wants ARCHIVE_TOOL of each tool of the
\* job and PACK_PKG (with xbps) or BUILD_PKG of each package.
ScopeJobs(c) ==
    CASE c.id = "twotools" ->
           { [wanted |-> {PlanKey("ARCHIVE_TOOL", Tool("tb"))}, build_scope |-> {Tool("tb")}],
             [wanted |-> {PlanKey("ARCHIVE_TOOL", Tool("ta")), PlanKey("ARCHIVE_TOOL", Tool("tb"))},
              build_scope |-> {Tool("ta"), Tool("tb")}] }
      [] c.id = "pkgs" ->
           { [wanted |-> {PlanKey("BUILD_PKG", Pkg("pa"))}, build_scope |-> {Pkg("pa")}] }
      [] c.id = "xbps" ->
           { [wanted |-> {PlanKey("PACK_PKG", Pkg("pa"))}, build_scope |-> {Pkg("pa")}],
             [wanted |-> {PlanKey("PACK_PKG", Pkg("pa")), PlanKey("PACK_PKG", Pkg("pb"))},
              build_scope |-> {Pkg("pa"), Pkg("pb")}] }
      [] c.id = "tasks" ->
           { [wanted |-> {PlanKey("BUILD_PKG", Pkg("pa")), PlanKey("RUN", Task("ka"))},
              build_scope |-> {Pkg("pa")}] }

\* A command, or a job.
ScopeCommands(c) ==
    {[wanted |-> w, build_scope |-> NoScope] : w \in ScopeGoals(c)} \cup ScopeJobs(c)

\* The entries inside the build directory of a tool or package, and itself.
BuildDirEntries(c, s) ==
    {File("build_dir", s)} \cup
    (IF s.kind = "tool" THEN ToolBuildDir(c, s) ELSE {File("configured", s)})

\* A clean tree with the empty build directories of B, or a built tree
\* from which the build directories of B were removed.
ScopeFs(c) ==
    { [f \in AllFiles(c) |->
         IF \E s \in B : f \in BuildDirEntries(c, s)
         THEN (IF base = "clean" /\ f.mark = "build_dir" THEN 1 ELSE NoTime)
         ELSE BaseValue(base, f)] :
      base \in {"clean", "built"}, B \in SUBSET (Tools(c) \cup all_pkgs(c)) }

\* Dry runs of commands and jobs, on sites with and without auto_pull.
InitScope ==
    /\ \E c \in {CfgTwoTools, CfgPkgs, CfgXbps, CfgTasks}, ap \in Bool :
         cfg = [c EXCEPT !.auto_pull = ap]
    /\ \E g \in ScopeCommands(cfg), ch \in Bool :
         LET p == [Plan_init(cfg, g.wanted) EXCEPT !.build_scope = g.build_scope,
                                                   !.check = ch, !.dry_run = TRUE]
         IN \E f \in ScopeFs(cfg) : InitWith(p, 0, f)

SpecScope == InitScope /\ [][NextPlan]_vars

(***************************************************************************)
(* Plans with isolated sysroots, and with the shared one.                  *)
(***************************************************************************)
\* The wanted sets of the command lines considered for the sysroots.
SysrootGoals(c) ==
    CASE c.id = "isolated" ->
           { {PlanKey("INSTALL_PKG", Pkg("pa"))},
             {PlanKey("BUILD_PKG", Pkg("pa"))},
             {PlanKey("CONFIGURE_PKG", Pkg("pb")), PlanKey("INSTALL_PKG", Pkg("pc"))} }
      [] OTHER -> Goals(c)

\* Dry runs with isolated sysroots and, for the packages of CfgPkgs, with
\* the shared one, under every iteration order of the sets.
InitSysroot ==
    /\ cfg \in {CfgIsolated, CfgXbps, CfgPkgs}
    /\ \E w \in SysrootGoals(cfg), ch \in Bool, s \in 0..MaxSeed :
         LET p == [NewPlan(w) EXCEPT !.check = ch, !.dry_run = TRUE]
         IN \E f \in FsChoices(cfg, p, 0) : InitWith(p, s, f)

SpecSysroot == InitSysroot /\ [][NextPlan]_vars

(***************************************************************************)
(* Properties of the plan engine.                                          *)
(***************************************************************************)
\* compute_plan raised the cycle error.
Circular == pc = "raised" /\ raised = "GenericError" /\ stack # <<>>

\* compute_plan returned.
PlanComputed == pc # "init" /\ ~Circular /\ raised # "RuntimeError"


\* The position of a key in a sequence of distinct keys, 0 if it is not there.
Position(q, k) == IF \E i \in 1..Len(q) : q[i] = k THEN CHOOSE i \in 1..Len(q) : q[i] = k ELSE 0

\* The materialized targets of the build, require and order edges of an item.
Successors(k) ==
    (_items[k].build_edges \cup _items[k].require_edges \cup _items[k].order_before_edges)
      \cap DOMAIN _items

\* The items reachable from the items of S over at least zero edges.
RECURSIVE ReachableFrom(_)
ReachableFrom(S) ==
    LET T == S \cup UNION {Successors(k) : k \in S}
    IN IF T = S THEN S ELSE ReachableFrom(T)

\* The item lies on a cycle of the graph.
OnCycle(k) == k \in ReachableFrom(Successors(k))

GraphCyclic == \E k \in DOMAIN _items : OnCycle(k)

\* C1: after compute_plan on an acyclic configuration every build edge and
\* every require edge of every materialized item names a materialized key,
\* and that item stands strictly earlier in the emitted order.
C1_EdgesMaterializedAndEarlier ==
    PlanComputed =>
      \A k \in DOMAIN _items :
        /\ Position(order, k) > 0
        /\ \A e \in ItemEdges(_items, k) :
             /\ e \in DOMAIN _items
             /\ Position(order, e) > 0
             /\ Position(order, e) < Position(order, k)

\* A plan of several items with build and require edges was ordered.
C1_Witness ==
    /\ PlanComputed
    /\ Len(order) >= 7
    /\ \E k \in DOMAIN _items : _items[k].build_edges # {} /\ _items[k].require_edges # {}
    /\ \E k \in active : ItemEdges(_items, k) # {}

\* C10: with no ordering PRNG the emitted order does not depend on the
\* iteration order of the wanted set and of the edge sets: it is the order
\* computed under the ascending iteration order, and no two distinct
\* materialized items have the same ordering key.
C10_OrderIndependentOfIteration ==
    PlanComputed =>
      /\ order = _do_ordering(0, _do_materialization(cfg, plan, 0)).order
      /\ \A k1, k2 \in DOMAIN _items :
           get_ordering_key(k1) = get_ordering_key(k2) => k1 = k2

\* A plan whose materialization order differs from the one under the
\* ascending iteration order.
C10_Witness ==
    /\ PlanComputed
    /\ seed # 0
    /\ Len(order) >= 7
    /\ items # _do_materialization(cfg, plan, 0).keys

\* The statuses and handler invocations of the run.
InvokedKeys == {invoked[i].key : i \in 1..Len(invoked)}
HandlerFailed(k) ==
    \E i \in 1..Len(invoked) : invoked[i].key = k /\ invoked[i].outcome \in {"failure", "error"}
RunEnded == pc \in {"returned", "raised"}

\* The active items of the edge list of an item.
ActiveEdgeTargets(k) == {edge_list[k][i] : i \in 1..Len(edge_list[k])} \cap active

\* The active items from which the item is reachable over active edge
\* targets, the item included.
RECURSIVE Upstream(_)
Upstream(S) ==
    LET T == S \cup UNION {ActiveEdgeTargets(k) : k \in S}
    IN IF T = S THEN S ELSE Upstream(T)

\* C2: under keep_going with only_wanted unset, an active item the driver
\* has passed is PREREQS_FAILED, with its handler not invoked, exactly if one
\* of its active edge targets has a status other than SUCCESS; an item whose
\* handler failed is STEP_FAILED; and when the run has ended the active items
\* that are not SUCCESS are exactly those downstream of a failed handler.
C2_FailurePropagates ==
    (PlanComputed /\ plan.keep_going /\ ~plan.only_wanted) =>
      /\ \A k \in active :
           exec_status[k] # "NULL" =>
             /\ exec_status[k] = "PREREQS_FAILED"
                  <=> \E e \in ActiveEdgeTargets(k) : exec_status[e] # "SUCCESS"
             /\ exec_status[k] = "PREREQS_FAILED" => k \notin InvokedKeys
      /\ \A k \in active : HandlerFailed(k) => exec_status[k] = "STEP_FAILED"
      /\ RunEnded =>
           \A k \in active :
             exec_status[k] # "SUCCESS" <=> \E u \in Upstream({k}) : HandlerFailed(u)

\* C3: without keep_going a failed handler is the last handler invoked:
\* run_plan has ended with an error and every later scheduled item is NULL.
C3_FirstFailureStops ==
    (PlanComputed /\ ~plan.keep_going) =>
      \A i \in 1..Len(invoked) :
        invoked[i].outcome \in {"failure", "error"} =>
          /\ i = Len(invoked)
          /\ pc = "raised" /\ raised # "None"
          /\ \A j \in 1..Len(scheduled) :
               j > Position(scheduled, invoked[i].key) => exec_status[scheduled[j]] = "NULL"

\* A handler failed without keep_going while items were still to run.
C3_Witness ==
    /\ PlanComputed /\ ~plan.keep_going
    /\ invoked # <<>>
    /\ invoked[Len(invoked)].outcome = "failure"
    /\ Len(invoked) >= 2
    /\ Position(scheduled, invoked[Len(invoked)].key) < Len(scheduled)

\* The least set that contains W and, for each of its items, the build-edge
\* and require-edge targets whose probe reports missing.
RECURSIVE MissingClosure(_)
MissingClosure(S) ==
    LET T == S \cup {e \in UNION {ItemEdges(_items, k) : k \in S} : _state[e].missing}
    IN IF T = S THEN S ELSE MissingClosure(T)

ActivatedWanted == {w \in plan.wanted : ~plan.check \/ _state[w].missing}

\* C4: with update and recursive unset the active set is the least set that
\* contains the activated wanted items and the missing build-edge and
\* require-edge targets of its items; an item that is present is active only
\* as an activated wanted item.
C4_ActiveIsLeastMissingClosure ==
    (PlanComputed /\ ~plan.update /\ ~plan.recursive) =>
      /\ active = MissingClosure(ActivatedWanted)
      /\ \A k \in active : ~_state[k].missing => k \in ActivatedWanted

\* A plan in which a present dependency of an active item stayed inactive
\* while a missing one was activated.
C4_Witness ==
    /\ PlanComputed /\ ~plan.update /\ ~plan.recursive
    /\ \E k \in active :
         /\ \E e \in ItemEdges(_items, k) : ~_state[e].missing /\ e \notin active
                                             /\ \E d \in ItemEdges(_items, e) : _state[d].missing
         /\ \E e \in ItemEdges(_items, k) : _state[e].missing /\ e \in active

\* C5: with check set (update and recursive unset) a wanted item is active
\* exactly if its probe reports missing, and when no wanted item is missing
\* the active set is empty and no handler is invoked; with check unset every
\* wanted item is active.
C5_CheckActivatesOnlyMissing ==
    (PlanComputed /\ ~plan.update /\ ~plan.recursive) =>
      /\ plan.check =>
           /\ \A w \in plan.wanted : w \in active <=> _state[w].missing
           /\ (\A w \in plan.wanted : ~_state[w].missing) =>
                active = {} /\ scheduled = <<>> /\ invoked = <<>>
      /\ ~plan.check => plan.wanted \subseteq active

\* run_plan returned from a plan with check set of which nothing was missing.
C5_Witness ==
    /\ pc = "returned" /\ ~plan.dry_run /\ plan.check
    /\ \A w \in plan.wanted : ~_state[w].missing
    /\ active = {} /\ invoked = <<>>

\* The tool stages built from a source.
StagesOfSource(s) ==
    UNION {all_stages(cfg, t) : t \in {u \in Tools(cfg) : this_yml(cfg, u).source = s.name}}

\* C6: with update set and restrict_updates unset every materialized item
\* that is updatable, or has a build-edge target that is active or strictly
\* newer than the item (both timestamps defined), is active; an updatable
\* FETCH_SRC activates the chain up to the materialized INSTALL_TOOL_STAGE
\* items of the tools built from the source.
C6_UpdateActivates ==
    (PlanComputed /\ plan.update /\ ~plan.restrict_updates) =>
      /\ \A k \in DOMAIN _items :
           ( \/ _state[k].updatable
             \/ \E e \in _items[k].build_edges :
                  \/ e \in active
                  \/ /\ _state[e].timestamp # NoTime /\ _state[k].timestamp # NoTime
                     /\ _state[e].timestamp > _state[k].timestamp )
           => k \in active
      /\ \A k \in DOMAIN _items :
           (k.action = "FETCH_SRC" /\ _state[k].updatable) =>
             \A st \in StagesOfSource(k.subject) :
               PlanKey("INSTALL_TOOL_STAGE", st) \in DOMAIN _items
                 => PlanKey("INSTALL_TOOL_STAGE", st) \in active

\* With update and check set, an updatable FETCH_SRC made the installed
\* stage of a tool built from the source active.
C6_Witness ==
    /\ PlanComputed /\ plan.update /\ ~plan.restrict_updates /\ plan.check
    /\ \E k \in DOMAIN _items :
         /\ k.action = "FETCH_SRC" /\ _state[k].updatable
         /\ \E st \in StagesOfSource(k.subject) :
              /\ PlanKey("INSTALL_TOOL_STAGE", st) \in active
              /\ ~_state[PlanKey("INSTALL_TOOL_STAGE", st)].missing

\* C7 as stated: in every computed plan an item with an active build-edge
\* target is active.
C7_ActiveBuildEdgeForcesItem ==
    PlanComputed =>
      \A k \in DOMAIN _items :
        (\E e \in _items[k].build_edges : e \in active) => k \in active

\* C7 amended: in every plan computed with update or recursive set, an item
\* that is considered for update (any item when restrict_updates is unset,
\* else an item on the build span) and has an active build-edge target is
\* active.
C7_ActiveBuildEdgeForcesItemOnUpdate ==
    (PlanComputed /\ (plan.update \/ plan.recursive)) =>
      \A k \in DOMAIN _items :
        (~plan.restrict_updates \/ k \in build_span) =>
          ((\E e \in _items[k].build_edges : e \in active) => k \in active)

\* An item that is present and not wanted was activated because a build-edge
\* target of it is active.
C7_Witness ==
    /\ PlanComputed /\ (plan.update \/ plan.recursive)
    /\ \E k \in active \ plan.wanted :
         /\ ~_state[k].missing /\ ~_state[k].updatable /\ k \notin outdated
         /\ \E e \in _items[k].build_edges : e \in active

\* The action has a completion marker or state.
StateBacked ==
    {"FETCH_SRC", "CHECKOUT_SRC", "PATCH_SRC", "REGENERATE_SRC", "CONFIGURE_TOOL",
     "COMPILE_TOOL_STAGE", "INSTALL_TOOL_STAGE", "CONFIGURE_PKG", "BUILD_PKG", "PACK_PKG",
     "PULL_PKG_PACK", "INSTALL_PKG", "ARCHIVE_TOOL"}

\* The plan of a later invocation with check set that wants the item.
CheckPlan(k) == [NewPlan({PlanKey(k.action, k.subject)}) EXCEPT !.check = TRUE]

\* C8: once the handler of an item of a state-backed action has returned and
\* the item is SUCCESS, a fresh probe of its key reports missing=false, and a
\* plan with check set that wants the item has it inactive.
C8_SuccessLeavesMarker ==
    (PlanComputed /\ invoked # <<>>) =>
      LET k == invoked[Len(invoked)].key
      IN (exec_status[k] = "SUCCESS" /\ k.action \in StateBacked) =>
           /\ ~_determine_state(cfg, plan, fs, k).missing
           /\ k.target_sysroot_id = NoSysroot =>
                PlanKey(k.action, k.subject) \notin compute_plan(cfg, CheckPlan(k), 0, fs).active

\* C9: compute_plan fails with the cycle error exactly if the materialized
\* items contain a cycle over build, require and order edges; then nothing is
\* scheduled and no handler is run, and the items reported with the error
\* are the items that form a cycle.
C9_CycleReported ==
    pc # "init" =>
      /\ Circular <=> GraphCyclic
      /\ Circular => scheduled = <<>> /\ invoked = <<>> /\ active = {}
      /\ Circular => \A i \in 1..Len(stack) : OnCycle(stack[i])

\* The number of times a key stands in a sequence.
Occurrences(q, k) == Cardinality({i \in 1..Len(q) : q[i] = k})

\* The Plan holds the plan r.
HoldsPlan(r) ==
    /\ items = r.keys /\ _items = r.item
    /\ order = r.order
    /\ active = r.active

\* C11: compute_plan called again on the same Plan with no change of the file
\* system leaves the plan as it was: after any number of calls the Plan holds
\* the materialized items, the order and the active set that one compute_plan
\* on a new Plan yields, with every item exactly once in the order.
C11_ComputePlanIdempotent ==
    (pc \in {"planned", "returned"} /\ plan.dry_run) =>
      /\ HoldsPlan(compute_plan(cfg, plan, seed, fs))
      /\ \A k \in DOMAIN _items : Occurrences(order, k) = 1

\* C12: after one compute_plan that ended without the cycle error the order
\* holds every materialized item exactly once and nothing else.
C12_OrderIsPermutation ==
    PlanComputed =>
      /\ \A k \in DOMAIN _items : Occurrences(order, k) = 1
      /\ \A i \in 1..Len(order) : order[i] \in DOMAIN _items
      /\ Len(order) = Cardinality(DOMAIN _items)

\* A plan in which several items share a dependency was ordered, under an
\* iteration order other than the ascending one.
C12_Witness ==
    /\ PlanComputed /\ seed # 0
    /\ \E k1, k2 \in DOMAIN _items :
         k1 # k2 /\ ItemEdges(_items, k1) \cap ItemEdges(_items, k2) # {}

\* run_plan ended by returning or by raising PlanFailureError.
RunFinished == pc = "returned" \/ (pc = "raised" /\ raised = "PlanFailureError")

\* The items whose exec_status is one of the given statuses.
WithStatus(S) == {k \in DOMAIN _items : exec_status[k] \in S}

C14_HandlerFailuresCaught ==
    (PlanComputed /\ plan.keep_going) =>
      /\ \A k \in active : HandlerFailed(k) => exec_status[k] = "STEP_FAILED"
      /\ raised \in {"None", "PlanFailureError"}

\* C15: without keep_going the error run_plan ends with after the handler of
\* an item failed (an activated WANT_* item fails in its handler branch) is
\* PlanFailureError.
C15_AbortIsPlanFailure ==
    (PlanComputed /\ ~plan.keep_going /\ pc = "raised" /\ invoked # <<>>) =>
      (HandlerFailed(invoked[Len(invoked)].key) => raised = "PlanFailureError")

\* The handler of the item was invoked and returned.
HandlerReturned(k) ==
    \E i \in 1..Len(invoked) : invoked[i].key = k /\ invoked[i].outcome \in {"success", "unchecked"}

\* An active item from which the item is reachable over active edge targets
\* did not end in SUCCESS although the driver came to it.
UpstreamFailed(k) ==
    \E u \in Upstream({k}) \ {k} :
        HandlerFailed(u) \/ exec_status[u] \in {"STEP_FAILED", "PREREQS_FAILED", "NOT_WANTED"}

\* C16: under keep_going, when run_plan has ended every scheduled item was
\* processed; an active item with no failed item upstream had its handler
\* invoked and is SUCCESS if the handler succeeded; and run_plan raised
\* PlanFailureError exactly if a scheduled item is not SUCCESS.
C16_KeepGoingProcessesAll ==
    (PlanComputed /\ plan.keep_going /\ ~plan.dry_run /\ RunEnded) =>
      /\ \A k \in active : exec_status[k] # "NULL"
      /\ \A k \in active :
           ~UpstreamFailed(k) =>
             /\ k \in InvokedKeys
             /\ HandlerReturned(k) => exec_status[k] = "SUCCESS"
      /\ raised = "PlanFailureError" <=> \E k \in active : exec_status[k] # "SUCCESS"

\* The active WANT_TOOL and WANT_PKG items.
ActiveWants == {k \in active : k.action \in {"WANT_TOOL", "WANT_PKG"}}

\* C17: an activated WANT_TOOL or WANT_PKG item never becomes SUCCESS, and a
\* run_plan (no dry_run) of a plan that has one active ends with an error,
\* with and without keep_going.
C17_WantNeverSucceeds ==
    (PlanComputed /\ ~plan.dry_run) =>
      /\ \A k \in ActiveWants : exec_status[k] # "SUCCESS"
      /\ (RunEnded /\ ActiveWants # {}) => (pc = "raised" /\ raised # "None")

\* The driver came to an active WANT_* item under keep_going, went on, and
\* run_plan ended.
C17_Witness ==
    /\ PlanComputed /\ ~plan.dry_run /\ plan.keep_going /\ RunEnded
    /\ \E k \in ActiveWants : k \in InvokedKeys /\ exec_status[k] = "STEP_FAILED"
    /\ \E k \in active : exec_status[k] = "PREREQS_FAILED"

\* The active items that are not in the wanted set.
ActiveUnwanted == {k \in active : PlanKey(k.action, k.subject) \notin plan.wanted}

RECURSIVE BuildReach(_)
BuildReach(S) ==
    LET T == S \cup UNION {_items[k].build_edges : k \in S}
    IN IF T = S THEN S ELSE BuildReach(T)

\* The item is updatable, or a build-edge target of it is active or newer.
WouldUpdate(k) ==
    \/ ~_state[k].missing /\ _state[k].updatable
    \/ \E e \in _items[k].build_edges : e \in active \/ is_outdated(_state, k, e)

\* C19: with update and restrict_updates set the build span is the wanted
\* items and what they reach over build edges alone; an active item off the
\* build span has a probe that reports missing and was reached from the
\* active items of the span over missing edge targets, so none is active
\* for being updatable, outdated or having an active dependency.
C19_UpdatesRestrictedToBuildSpan ==
    (PlanComputed /\ plan.update /\ plan.restrict_updates) =>
      /\ build_span = BuildReach(plan.wanted)
      /\ \A k \in active \ build_span : _state[k].missing
      /\ active \subseteq MissingClosure(active \cap build_span)

\* With update and restrict_updates set an item off the build span stayed
\* inactive although it is present and an update would have activated it,
\* while an item on the span was activated by the update.
C19_Witness ==
    /\ PlanComputed /\ plan.update /\ plan.restrict_updates
    /\ \E k \in DOMAIN _items \ build_span :
         k \notin active /\ ~_state[k].missing /\ WouldUpdate(k)
    /\ \E k \in (active \cap build_span) \ plan.wanted : ~_state[k].missing

\* C20: with update set and recursive unset every active item is wanted, or
\* has a missing or updatable probe, or has a build-edge target that is
\* active or strictly newer: a require-edge target that is active or newer
\* activates nothing.
C20_RequireEdgesDoNotUpdate ==
    (PlanComputed /\ plan.update /\ ~plan.recursive) =>
      \A k \in active :
        \/ k \in plan.wanted
        \/ _state[k].missing \/ _state[k].updatable
        \/ \E e \in _items[k].build_edges : e \in active \/ is_outdated(_state, k, e)

\* A require-edge target of the item is active or newer than the item.
RequireWouldUpdate(k) ==
    \E e \in _items[k].require_edges : e \in active \/ is_outdated(_state, k, e)

\* With update set and recursive unset an item stayed inactive although a
\* require-edge target of it is active or newer.
C20_Witness ==
    /\ PlanComputed /\ plan.update /\ ~plan.recursive /\ ~plan.restrict_updates
    /\ \E k \in DOMAIN _items \ active : RequireWouldUpdate(k)

\* C21: with recursive set and restrict_updates unset every materialized
\* item that has a require-edge target which is active, or whose timestamp
\* is strictly newer than the item's own (both defined), is active after
\* compute_plan.
C21_RecursiveFollowsRequireEdges ==
    (PlanComputed /\ plan.recursive /\ ~plan.restrict_updates) =>
      \A k \in DOMAIN _items :
        (\E e \in _items[k].require_edges :
           \/ e \in active
           \/ /\ _state[e].timestamp # NoTime /\ _state[k].timestamp # NoTime
              /\ _state[e].timestamp > _state[k].timestamp)
          => k \in active

\* With recursive and check set, an item that is present, not wanted, not
\* updatable and has no active or newer build-edge target is active for a
\* require-edge target that is active or newer.
C21_Witness ==
    /\ PlanComputed /\ plan.recursive /\ ~plan.restrict_updates /\ plan.check
    /\ \E k \in active \ plan.wanted :
         /\ ~_state[k].missing /\ ~_state[k].updatable
         /\ ~\E e \in _items[k].build_edges : e \in active \/ is_outdated(_state, k, e)
         /\ RequireWouldUpdate(k)

\* The tasks the subject lists in tasks_required with order_only alone.
OrderOnlyTasks(s) ==
    {r.task : r \in {e \in this_yml(cfg, s).tasks_required : e.order_only}}
      \ {r.task : r \in {e \in this_yml(cfg, s).tasks_required : ~e.order_only}}

\* The build and require edges of a materialized item.
DependencyEdges(k) == _items[k].build_edges \cup _items[k].require_edges

\* The keys reached from the keys of S over build and require edges.
RECURSIVE DependencyReach(_)
DependencyReach(S) ==
    LET T == S \cup UNION {DependencyEdges(k) : k \in S \cap DOMAIN _items}
    IN IF T = S THEN S ELSE DependencyReach(T)

\* C22: a task listed in tasks_required with order_only is an ordering-only
\* dependency: RUN(task) is no build or require edge of the referencing
\* item, the materialized items are those reached from the wanted items
\* over build and require edges, and without update and recursive the active
\* items are reached that way from the active wanted items, so the reference
\* materializes and activates nothing; when RUN(task) is in the plan, it
\* stands before the referencing item in the emitted order.
C22_OrderOnlyTaskOnlyOrders ==
    PlanComputed =>
      /\ \A k \in DOMAIN _items : \A tn \in OrderOnlyTasks(k.subject) :
           PlanKey("RUN", Task(tn)) \notin DependencyEdges(k)
      /\ DOMAIN _items = DependencyReach(plan.wanted)
      /\ (~plan.update /\ ~plan.recursive) =>
           active \subseteq DependencyReach(plan.wanted \cap active)
      /\ \A k \in DOMAIN _items : \A e \in _items[k].order_before_edges :
           e \in DOMAIN _items =>
             /\ Position(order, e) > 0
             /\ Position(order, e) < Position(order, k)

\* An active item lists a task with order_only, and RUN(task) is not
\* materialized.
C22_Witness ==
    /\ PlanComputed
    /\ \E k \in active : \E tn \in OrderOnlyTasks(k.subject) :
         /\ PlanKey("RUN", Task(tn)) \in _items[k].order_before_edges
         /\ PlanKey("RUN", Task(tn)) \notin DOMAIN _items

\* An item lists a task with order_only, and RUN(task) is wanted and stands
\* before the item.
C22_WitnessOrdered ==
    /\ PlanComputed
    /\ \E k \in DOMAIN _items : \E tn \in OrderOnlyTasks(k.subject) :
         /\ PlanKey("RUN", Task(tn)) \in _items[k].order_before_edges
         /\ PlanKey("RUN", Task(tn)) \in plan.wanted
         /\ Position(order, PlanKey("RUN", Task(tn))) < Position(order, k)

\* The tool or package a subject belongs to.
Owner(s) ==
    CASE s.kind = "stage" -> Tool(s.name)
      [] s.kind = "pkgtask" -> Pkg(s.parent)
      [] s.kind = "tooltask" -> Tool(s.parent)
      [] OTHER -> s

\* The subject is outside the build scope of the plan.
OutOfScope(s) == plan.build_scope # NoScope /\ s \notin plan.build_scope

\* The tools the item requires: those its subject lists in tools_required
\* and, for a stage, those of its tool.
RequiredTools(k) ==
    IF k.action \in {"REGENERATE_SRC", "CONFIGURE_TOOL", "COMPILE_TOOL_STAGE",
                     "INSTALL_TOOL_STAGE", "CONFIGURE_PKG", "BUILD_PKG",
                     "REPRODUCE_BUILD_PKG", "RUN", "RUN_PKG", "RUN_TOOL"}
    THEN {Tool(st.name) : st \in tool_stage_dependencies(cfg, k.subject)
                                   \cup tool_stage_dependencies(cfg, Owner(k.subject))}
    ELSE {}

\* What stands for the tool, and for the build of the package, out of scope.
ToolOutOfScope(t) ==
    PlanKey(IF plan.pull_out_of_scope THEN "PULL_ARCHIVE" ELSE "WANT_TOOL", t)
PkgOutOfScope(q) ==
    PlanKey(IF plan.pull_out_of_scope THEN "PULL_PKG_PACK" ELSE "WANT_PKG", q)

\* The items that configure, build, compile, install or pack a tool or package.
BuildChain ==
    {"CONFIGURE_TOOL", "COMPILE_TOOL_STAGE", "INSTALL_TOOL_STAGE", "CONFIGURE_PKG",
     "BUILD_PKG", "PACK_PKG"}

\* The edges of tool requirements out of scope, and that no edge leads from
\* an item of one subject into the build chain of a subject out of scope.
ToolsOutOfScopeReplaced ==
    /\ \A k \in DOMAIN _items : \A t \in RequiredTools(k) :
         OutOfScope(t) =>
           /\ ToolOutOfScope(t) \in _items[k].require_edges
           /\ ~\E e \in DependencyEdges(k) :
                  e.action = "INSTALL_TOOL_STAGE" /\ Owner(e.subject) = t
    /\ \A k \in DOMAIN _items : \A e \in DependencyEdges(k) :
         (e.action \in BuildChain /\ OutOfScope(Owner(e.subject)))
           => Owner(k.subject) = Owner(e.subject)

\* The INSTALL_PKG keys materialization reached whose package is out of scope.
InstallsOutOfScope ==
    {k \in _visited_for_materialization :
       k.action = "INSTALL_PKG" /\ OutOfScope(k.subject)}

\* C23 as stated: under a build scope a required tool out of scope gives
\* the requiring item a require edge to PULL_ARCHIVE (pull_out_of_scope) or
\* WANT_TOOL and no edge to an INSTALL_TOOL_STAGE of the tool; every
\* INSTALL_PKG of a package out of scope is materialized with its build edge
\* on PULL_PKG_PACK or WANT_PKG; no edge leads into the build chain of a
\* subject out of scope from an item of another subject.
C23_OutOfScopeReplaced ==
    (pc # "init" /\ plan.build_scope # NoScope) =>
      /\ ToolsOutOfScopeReplaced
      /\ \A k \in InstallsOutOfScope :
           k \in DOMAIN _items /\ _items[k].build_edges = {PkgOutOfScope(k.subject)}

\* C23 amended: as stated, but with pull_out_of_scope set and no xbps
\* backend an INSTALL_PKG of a package out of scope is not materialized:
\* _materialize_item raises RuntimeError and no plan is computed.
C23_OutOfScopeReplacedOrRefused ==
    (pc # "init" /\ plan.build_scope # NoScope) =>
      /\ ToolsOutOfScopeReplaced
      /\ \A k \in InstallsOutOfScope :
           IF plan.pull_out_of_scope /\ ~cfg.use_xbps
           THEN k \notin DOMAIN _items /\ raised = "RuntimeError"
           ELSE k \in DOMAIN _items /\ _items[k].build_edges = {PkgOutOfScope(k.subject)}
      /\ raised = "RuntimeError" =>
           (plan.pull_out_of_scope /\ ~cfg.use_xbps /\ InstallsOutOfScope # {})

\* An item requires a tool out of scope and has PULL_ARCHIVE of it for a
\* require edge, and no item of that tool's build chain is materialized.
C23_Witness ==
    /\ pc # "init" /\ plan.build_scope # NoScope /\ plan.pull_out_of_scope
    /\ \E k \in DOMAIN _items : \E t \in RequiredTools(k) :
         /\ OutOfScope(t)
         /\ PlanKey("PULL_ARCHIVE", t) \in _items[k].require_edges
         /\ ~\E e \in DOMAIN _items : e.action \in BuildChain /\ Owner(e.subject) = t

\* An item requires a tool out of scope and has WANT_TOOL of it for a
\* require edge.
C23_WitnessWantTool ==
    /\ pc # "init" /\ plan.build_scope # NoScope /\ ~plan.pull_out_of_scope
    /\ \E k \in DOMAIN _items : \E t \in RequiredTools(k) :
         OutOfScope(t) /\ PlanKey("WANT_TOOL", t) \in _items[k].require_edges

\* INSTALL_PKG of a package out of scope has its build edge on WANT_PKG.
C23_WitnessWantPkg ==
    /\ pc # "init" /\ plan.build_scope # NoScope /\ ~plan.pull_out_of_scope
    /\ \E k \in InstallsOutOfScope : _items[k].build_edges = {PlanKey("WANT_PKG", k.subject)}

\* INSTALL_PKG of a package out of scope has its build edge on PULL_PKG_PACK.
C23_WitnessPullPkg ==
    /\ pc # "init" /\ plan.build_scope # NoScope /\ plan.pull_out_of_scope
    /\ \E k \in InstallsOutOfScope \cap DOMAIN _items :
         _items[k].build_edges = {PlanKey("PULL_PKG_PACK", k.subject)}

\* Without xbps, materializing INSTALL_PKG of a package out of scope raised.
C23_WitnessRefused ==
    /\ pc = "raised" /\ raised = "RuntimeError" /\ ~cfg.use_xbps
    /\ InstallsOutOfScope # {}

\* The plan is that of a command, whose scope compute_plan derived: the
\* jobs want other sets than the commands.
AutoScope ==
    /\ pc # "init" /\ plan.use_auto_scope
    /\ ~\E g \in ScopeJobs(cfg) : g.wanted = plan.wanted

\* The tool or package is the subject of a wanted configure or build action
\* (for COMPILE_TOOL_STAGE the tool of the stage), or its build directory
\* exists.
ExpectedInScope(s) ==
    \/ \E w \in plan.wanted :
         /\ w.action \in {"CONFIGURE_TOOL", "COMPILE_TOOL_STAGE", "CONFIGURE_PKG",
                          "BUILD_PKG", "REPRODUCE_BUILD_PKG"}
         /\ Owner(w.subject) = s
    \/ build_dir_exists(cfg, fs, s)

\* C24: with the scope derived by compute_plan, a requirement on a tool that
\* is the subject of a wanted configure or build action, or whose build
\* directory exists, resolves to the INSTALL_TOOL_STAGE items of the tool,
\* and one on any other tool to PULL_ARCHIVE or WANT_TOOL; INSTALL_PKG of
\* such a package has its build edge on PACK_PKG or BUILD_PKG, and that of
\* any other package on PULL_PKG_PACK or WANT_PKG.
C24_AutoScopeHoldsWantedAndBuilt ==
    AutoScope =>
      /\ \A k \in DOMAIN _items : \A t \in RequiredTools(k) :
           IF ExpectedInScope(t)
           THEN /\ \A st \in all_stages(cfg, t) :
                     PlanKey("INSTALL_TOOL_STAGE", st) \in _items[k].require_edges
                /\ ToolOutOfScope(t) \notin _items[k].require_edges
           ELSE /\ ToolOutOfScope(t) \in _items[k].require_edges
                /\ \A st \in all_stages(cfg, t) :
                     PlanKey("INSTALL_TOOL_STAGE", st) \notin _items[k].require_edges
      /\ \A k \in DOMAIN _items :
           k.action = "INSTALL_PKG" =>
             _items[k].build_edges =
               {IF ExpectedInScope(k.subject)
                THEN PlanKey(IF cfg.use_xbps THEN "PACK_PKG" ELSE "BUILD_PKG", k.subject)
                ELSE PkgOutOfScope(k.subject)}

\* The same with the tool of a wanted COMPILE_TOOL_STAGE left out: what the
\* derived scope does hold.
C24_ScopeHoldsSubjectsAndBuilt ==
    AutoScope =>
      \A s \in Tools(cfg) \cup all_pkgs(cfg) :
        s \in plan.build_scope <=>
          \/ \E w \in plan.wanted :
               /\ w.action \in {"CONFIGURE_TOOL", "CONFIGURE_PKG", "BUILD_PKG",
                                "REPRODUCE_BUILD_PKG"}
               /\ w.subject = s
          \/ build_dir_exists(cfg, fs, s)

\* A stage of the tool is wanted compiled, the tool has no build directory,
\* and an item that requires the tool has PULL_ARCHIVE of it for an edge.
C24_CompiledToolPulled ==
    /\ AutoScope
    /\ \E w \in plan.wanted : w.action = "COMPILE_TOOL_STAGE" /\
         /\ ~build_dir_exists(cfg, fs, Owner(w.subject))
         /\ \E k \in DOMAIN _items :
              /\ Owner(w.subject) \in RequiredTools(k)
              /\ PlanKey("PULL_ARCHIVE", Owner(w.subject)) \in _items[k].require_edges

(***************************************************************************)
(* The sysroot directories of a Plan.                                      *)
(***************************************************************************)
\* Config.sysroot_dir, the shared sysroot.
sysroot_dir == <<"system-root", 0>>

\* tempfile.TemporaryDirectory(prefix="sysroot."): the i-th directory made
\* by this process; no two have one name.
TemporaryDirectory(i) == <<"sysroot.", i>>

\* Plan._sysroots after _materialize_item made the items of keys in their
\* order: an id that is not in the dict gets a new temporary directory
\* (None gets one as well).
RECURSIVE SysrootsAfter(_, _, _, _)
SysrootsAfter(c, keys, i, d) ==
    IF i > Len(keys) THEN d
    ELSE SysrootsAfter(c, keys, i + 1,
           IF sysroot_id_of(c, keys[i]) \in DOMAIN d THEN d
           ELSE (sysroot_id_of(c, keys[i]) :> TemporaryDirectory(Cardinality(DOMAIN d) + 1))
                  @@ d)

\* Plan._sysroots of the Plan the variables hold.
_sysroots == SysrootsAfter(cfg, items, 1, <<>>)

\* A Plan in which every item uses the shared sysroot.
get_sysroot_shared(sysroots, sysroot_id) == sysroot_dir

\* Plan.get_sysroot(sysroot_id)
get_sysroot(sysroots, sysroot_id) ==
    IF sysroot_id = NoSysroot THEN sysroot_dir ELSE sysroots[sysroot_id]

\* PlanItem.get_sysroot() of the item of a key.
item_sysroot(k) == get_sysroot(_sysroots, sysroot_id_of(cfg, k))

\* C25: with isolated sysroots two items of a plan resolve to one sysroot
\* directory exactly when they have one sysroot id, an id other than None
\* resolves to a temporary directory and None to the shared sysroot_dir;
\* without isolation every item resolves to the shared sysroot_dir.
C25_SysrootPerId ==
    PlanComputed =>
      /\ \A j \in DOMAIN _items : \A k \in DOMAIN _items :
           (sysroot_id_of(cfg, j) = sysroot_id_of(cfg, k)) <=> (item_sysroot(j) = item_sysroot(k))
      /\ \A k \in DOMAIN _items :
           (sysroot_id_of(cfg, k) = NoSysroot) <=> (item_sysroot(k) = sysroot_dir)
      /\ ~cfg.isolate_sysroots => \A k \in DOMAIN _items : item_sysroot(k) = sysroot_dir

\* With isolation a plan holds items of two ids other than None, in two
\* temporary directories, and an item in the shared sysroot.
C25_Witness ==
    /\ PlanComputed /\ cfg.isolate_sysroots
    /\ \E j \in DOMAIN _items : \E k \in DOMAIN _items :
         /\ j.action = "INSTALL_PKG" /\ k.action = "CONFIGURE_PKG"
         /\ sysroot_id_of(cfg, j) # NoSysroot /\ sysroot_id_of(cfg, k) # NoSysroot
         /\ item_sysroot(j) # item_sysroot(k)
    /\ \E k \in DOMAIN _items : k.action = "INSTALL_PKG" /\ item_sysroot(k) = sysroot_dir

\* Without isolation INSTALL_PKG, CONFIGURE_PKG and BUILD_PKG items are in
\* the plan.
C25_WitnessShared ==
    /\ PlanComputed /\ ~cfg.isolate_sysroots
    /\ \A a \in {"INSTALL_PKG", "CONFIGURE_PKG", "BUILD_PKG"} :
         \E k \in DOMAIN _items : k.action = a

\* The INSTALL_PKG items reached from the items of S over the require edges
\* that lead to INSTALL_PKG items.
RECURSIVE InstallReach(_)
InstallReach(S) ==
    LET T == S \cup {e \in UNION {_items[k].require_edges : k \in S \cap DOMAIN _items} :
                       e.action = "INSTALL_PKG"}
    IN IF T = S THEN S ELSE InstallReach(T)

\* The packages that must be installed for a package: those it declares
\* and, unless it is implicit itself, the implicit packages.
NeededBy(q) ==
    this_yml(cfg, Pkg(q)).pkgs_required
      \cup (IF is_implicit(cfg, Pkg(q)) THEN {}
            ELSE {r.name : r \in {x \in all_pkgs(cfg) : is_implicit(cfg, x)}})

\* The packages of Q and all that must be installed for them.
RECURSIVE PkgClosure(_)
PkgClosure(Q) ==
    LET T == Q \cup UNION {NeededBy(q) : q \in Q}
    IN IF T = Q THEN Q ELSE PkgClosure(T)

\* The sequence lists the names of Q in ascending order, each once.
IsSortedTupleOf(sid, Q) ==
    /\ {sid[i] : i \in 1..Len(sid)} = Q
    /\ \A i \in 1..Len(sid) : \A j \in 1..Len(sid) :
         i < j => NameRank(sid[i]) < NameRank(sid[j])

AlwaysMissing ==
    {"RUN", "RUN_PKG", "RUN_TOOL", "REPRODUCE_BUILD_PKG", "REPRODUCE_PACK_PKG", "ARCHIVE_PKG"}

\* The materialized items of the actions of A.
ItemsOf(A) == {k \in DOMAIN _items : k.action \in A}

\* The item is wanted, or a build or require edge of an active item.
Demanded(k) ==
    \/ PlanKey(k.action, k.subject) \in plan.wanted
    \/ \E j \in active : k \in ItemEdges(_items, j)

\* The probes of the items of A report missing, and such an item is active
\* whenever it is wanted or an edge target of an active item.
RerunWhenDemanded(A) ==
    \A k \in ItemsOf(A) : _state[k].missing /\ (Demanded(k) => k \in active)

\* C27: the probes of RUN, RUN_PKG, RUN_TOOL, REPRODUCE_BUILD_PKG,
\* REPRODUCE_PACK_PKG, ARCHIVE_PKG and PULL_ARCHIVE report missing in every
\* state of the file system, so such an item is active whenever it is wanted
\* (also with check set) or an edge target of an active item.
C27_NonIdempotentAlwaysMissing ==
    PlanComputed => RerunWhenDemanded(AlwaysMissing \cup {"PULL_ARCHIVE"})

\* All of it holds of the six actions other than PULL_ARCHIVE.
C27_ConstantProbesRerun ==
    PlanComputed => RerunWhenDemanded(AlwaysMissing)

\* The probe of PULL_ARCHIVE reports missing exactly when some stage of the
\* tool is not installed.
C27_PullArchiveProbesInstall ==
    PlanComputed =>
      \A k \in ItemsOf({"PULL_ARCHIVE"}) :
        _state[k].missing <=>
          \E st \in all_stages(cfg, k.subject) : fs[File("installed", st)] = NoTime

\* With check set in a tree where something is present, every one of the six
\* actions is seen as a wanted item and RUN also as the edge target of an
\* active item.
C27_RerunReached ==
    /\ PlanComputed /\ plan.check
    /\ \E j \in DOMAIN _items : ~_state[j].missing
    /\ \E k \in active : k.action \in AlwaysMissing /\ PlanKey(k.action, k.subject) \in plan.wanted

\* A PULL_ARCHIVE item that is the require edge of an active item and is
\* neither missing nor active: the tool is installed.
C27_PullArchiveSkipped ==
    /\ PlanComputed
    /\ \E k \in ItemsOf({"PULL_ARCHIVE"}) :
         /\ ~_state[k].missing /\ k \notin active
         /\ \E j \in active : k \in _items[j].require_edges

(***************************************************************************)
(* Versions compared outside of a plan: two pkgver strings are parsed as   *)
(* check_if_pull_needed parses them and the versions are compared.         *)
(***************************************************************************)
\* The pieces the version strings considered are built from: integers (one
\* with a leading zero), letters of both cases, modifiers and the dot.
VersionTokens ==
    { <<"1">>, <<"0", "2">>, <<"a">>, <<"B">>, <<"r", "c">>, <<"p", "l">>,
      <<"a", "l", "p", "h", "a">>, <<".">> }

\* Strings with the other modifiers, a prefix of a modifier, and more tokens.
LongerVersions ==
    { <<"p", "r", "e">>, <<"b", "e", "t", "a">>, <<"p">>, <<"1", "0">>,
      <<"1", ".", "0", "r", "c", "1">>, <<"1", ".", "0", ".", "1">>,
      <<"1", ".", "0", "p", "r", "e", "_", "2">> }

\* The empty string and the tokens; the strings of two tokens.
ShortVersions == {<<>>} \cup VersionTokens
TwoTokens == {s \o t : s \in VersionTokens, t \in VersionTokens}

\* The revisions appended to the strings of at most one token.
Revisions == { <<"_", "0">>, <<"_", "1">>, <<"_", "1", "2">> }

\* The version strings considered.
VersionStrings ==
    ShortVersions \cup TwoTokens \cup {s \o r : s \in ShortVersions, r \in Revisions}
      \cup LongerVersions

\* The package names put in front of a version.
Pkgnames == { <<"p", "a">>, <<"l", "i", "b", "-", "2", "_", "x">> }

\* The pkgver of a package name and a version.
Pkgver(name, v) == name \o <<"-">> \o v

\* The comparison check_if_pull_needed makes of two pkgver strings.
compare_pkgver(a, b) ==
    LET v1 == parse_version(a, TRUE)
        v2 == parse_version(b, TRUE)
    IN IF v1.raised # "None" THEN [raised |-> v1.raised, v1 |-> v1, v2 |-> v2, value |-> 0]
       ELSE IF v2.raised # "None" THEN [raised |-> v2.raised, v1 |-> v1, v2 |-> v2, value |-> 0]
       ELSE [raised |-> "None", v1 |-> v1, v2 |-> v2, value |-> compare_version(v1, v2)]

\* The state before two version strings are compared.
InitVersion ==
    /\ cfg = CfgXbps
    /\ \E a \in VersionStrings, b \in VersionStrings :
         InitCalling(NewPlan({}), 0, [f \in AllFiles(cfg) |-> BaseValue("clean", f)],
                     [fn |-> "compare_version", args |-> <<a, b>>])

\* parse_version of both strings, then compare_version.
CompareVersions ==
    /\ call # NoCall /\ result = NoCall
    /\ call.fn = "compare_version"
    /\ result' = compare_pkgver(call.args[1], call.args[2])
    /\ UNCHANGED <<cfg, plan, seed, fs, pc, planned, exec_status, n, any_failed_items,
                   raised, invoked, call>>

NextVersion == CompareVersions

SpecVersion == InitVersion /\ [][NextVersion]_vars

\* The sign of an integer.
Sign(i) == IF i < 0 THEN -1 ELSE IF i > 0 THEN 1 ELSE 0

\* The components filled up with zeros to m of them, then the revision.
PaddedKey(v, m) == v.comps \o [i \in 1..(m - Len(v.comps)) |-> 0] \o <<v.revision>>

\* The sign of the lexicographic comparison of the padded component lists
\* followed by the revisions.
LexicographicSign(v1, v2) ==
    LET m == IF Len(v1.comps) > Len(v2.comps) THEN Len(v1.comps) ELSE Len(v2.comps)
    IN IF TupleLess(PaddedKey(v1, m), PaddedKey(v2, m)) THEN -1
       ELSE IF TupleLess(PaddedKey(v2, m), PaddedKey(v1, m)) THEN 1 ELSE 0

\* Two version strings were compared.
Compared == call # NoCall /\ call.fn = "compare_version" /\ result # NoCall

\* C29: for version strings built from digits, letters, modifiers, dots and
\* an optional revision, compare_version of the parsed versions has the sign
\* of the lexicographic comparison of the zero-padded component lists
\* followed by the revision; a version compares equal to itself, swapping the
\* arguments negates the sign, the order is transitive, and a package name in
\* front of either string does not change the result.
C29_CompareVersionIsLexicographic ==
    Compared =>
      LET a == call.args[1]
          b == call.args[2]
      IN /\ result.raised = "None"
         /\ Sign(result.value) = LexicographicSign(result.v1, result.v2)
         /\ compare_version(result.v1, result.v1) = 0
         /\ Sign(compare_version(result.v2, result.v1)) = 0 - Sign(result.value)
         /\ \A c \in VersionStrings :
              LET v3 == parse_version(c, TRUE)
              IN (result.value <= 0 /\ compare_version(result.v2, v3) <= 0)
                   => compare_version(result.v1, v3) <= 0
         /\ \A na \in Pkgnames, nb \in Pkgnames :
              /\ compare_pkgver(Pkgver(na, a), b) = result
              /\ compare_pkgver(a, Pkgver(nb, b)) = result
              /\ compare_pkgver(Pkgver(na, a), Pkgver(nb, b)) = result

\* Two versions with component lists of different lengths that agree on the
\* shorter one and are ordered by the components the longer one has more.
C29_Witness ==
    /\ Compared /\ result.raised = "None" /\ result.value < 0
    /\ Len(result.v1.comps) < Len(result.v2.comps)
    /\ SubSeq(result.v2.comps, 1, Len(result.v1.comps)) = result.v1.comps
    /\ result.v1.revision > result.v2.revision

(***************************************************************************)
(* Plans of pull-pack: the local and the remote repodata hold any of the   *)
(* versions, or no entry, for the first package.                           *)
(***************************************************************************)
\* The places in RepoVersions, and None.
RepoEntries == {NoTime} \cup {i - 1 : i \in DOMAIN RepoVersions}

\* A built tree whose repodata entries of package q are those given.
RepoFs(c, q, loc, rem) ==
    [f \in AllFiles(c) |->
       IF f = File("xbps", q) THEN loc
       ELSE IF f = File("remote_pkgver", q) THEN rem
       ELSE BaseValue("built", f)]

InitPull ==
    /\ cfg = CfgXbps
    /\ \E w \in { {PlanKey("PULL_PKG_PACK", Pkg("pa"))},
                  {PlanKey("PULL_PKG_PACK", Pkg("pa")), PlanKey("PULL_PKG_PACK", Pkg("pb"))} },
          ch \in Bool, up \in Bool :
         LET p == [NewPlan(w) EXCEPT !.check = ch, !.update = up, !.dry_run = TRUE]
         IN \E loc \in RepoEntries, rem \in RepoEntries :
              InitWith(p, 0, RepoFs(cfg, Pkg("pa"), loc, rem))

SpecPull == InitPull /\ [][NextPlan]_vars

\* The version of a repodata entry of the file system.
VersionOf(f) == parse_version(pkgver_of(f.subject, fs[f]), TRUE)

\* The remote repodata has an entry for the package whose version is
\* strictly greater than that of the local entry.
RemoteNewer(q) ==
    /\ fs[File("remote_pkgver", q)] # NoTime
    /\ LexicographicSign(VersionOf(File("remote_pkgver", q)), VersionOf(File("xbps", q))) > 0

\* C28: the probe of PULL_PKG_PACK reports missing when the local repodata
\* has no entry for the package; when it has one, the probe reports
\* updatable exactly when remotes are checked and the remote version is
\* strictly greater than the local one, never for an equal or older one.
C28_PullNeededWhenRemoteNewer ==
    PlanComputed =>
      \A k \in DOMAIN _items :
        k.action = "PULL_PKG_PACK" =>
          IF fs[File("xbps", k.subject)] = NoTime
          THEN _state[k].missing /\ ~_state[k].updatable
          ELSE /\ ~_state[k].missing
               /\ _state[k].updatable <=> (plan.update /\ RemoteNewer(k.subject))

\* With check set, a package whose remote version is newer by its revision
\* alone is updatable and pulled.
C28_Witness ==
    /\ PlanComputed /\ plan.check /\ plan.update
    /\ \E k \in active :
         /\ k.action = "PULL_PKG_PACK" /\ _state[k].updatable
         /\ VersionOf(File("remote_pkgver", k.subject)).comps
              = VersionOf(File("xbps", k.subject)).comps

\* A package whose remote pkgver differs from the local one and compares
\* equal to it is neither updatable nor pulled.
C28_WitnessEqual ==
    /\ PlanComputed /\ plan.check /\ plan.update
    /\ \E k \in DOMAIN _items :
         /\ k.action = "PULL_PKG_PACK" /\ k \notin active /\ ~_state[k].updatable
         /\ fs[File("xbps", k.subject)] # NoTime
         /\ fs[File("remote_pkgver", k.subject)] \notin {NoTime, fs[File("xbps", k.subject)]}
         /\ LexicographicSign(VersionOf(File("remote_pkgver", k.subject)),
                              VersionOf(File("xbps", k.subject))) = 0

(***************************************************************************)
(* Lookups in a configuration whose site file restricts the labels.        *)
(***************************************************************************)
\* The calls considered: the iterators, and the lookups of the defined names
\* and of another one.
ConfigCalls(c) ==
    { [fn |-> "all_tools", args |-> <<>>], [fn |-> "all_pkgs", args |-> <<>>] }
      \cup {[fn |-> "get_tool_pkg", args |-> <<tn>>] : tn \in c.tools \cup {"x"}}
      \cup {[fn |-> "get_target_pkg", args |-> <<tn>>] : tn \in c.pkgs \cup {"x"}}

InitLabels ==
    /\ \E site \in Sites : cfg = [CfgIsolated EXCEPT !.id = "labels", !.labels = site]
    /\ \E cl \in ConfigCalls(cfg) :
         InitCalling(NewPlan({}), 0, [f \in AllFiles(cfg) |-> BaseValue("clean", f)], cl)

\* The call of an iterator or of a lookup.
CallConfig ==
    /\ call # NoCall /\ result = NoCall
    /\ call.fn \in {"all_tools", "all_pkgs", "get_tool_pkg", "get_target_pkg"}
    /\ result' = CASE call.fn = "all_tools" -> Returned(all_tools(cfg))
                   [] call.fn = "all_pkgs" -> Returned(all_pkgs(cfg))
                   [] call.fn = "get_tool_pkg" -> get_tool_pkg(cfg, call.args[1])
                   [] call.fn = "get_target_pkg" -> get_target_pkg(cfg, call.args[1])
    /\ UNCHANGED <<cfg, plan, seed, fs, pc, planned, exec_status, n, any_failed_items,
                   raised, invoked, call>>

NextLabels == CallConfig

SpecLabels == InitLabels /\ [][NextLabels]_vars

\* The subject has every label of the match list, if there is one, and no
\* label of the ban list.
EligibleByAll(s) ==
    /\ cfg.labels.has_match => cfg.labels.match \subseteq label_set(cfg, s)
    /\ cfg.labels.ban \cap label_set(cfg, s) = {}

\* The subject has some label of the match list, if there is one, and no
\* label of the ban list.
EligibleByAny(s) ==
    /\ cfg.labels.has_match => cfg.labels.match \cap label_set(cfg, s) # {}
    /\ cfg.labels.ban \cap label_set(cfg, s) = {}

\* The subject a lookup names, when it is defined.
LookedUp ==
    IF call.fn = "get_tool_pkg" /\ call.args[1] \in cfg.tools THEN {Tool(call.args[1])}
    ELSE IF call.fn = "get_target_pkg" /\ call.args[1] \in cfg.pkgs THEN {Pkg(call.args[1])}
    ELSE {}

\* A call on the configuration returned or raised.
ConfigCalled ==
    /\ call # NoCall /\ result # NoCall
    /\ call.fn \in {"all_tools", "all_pkgs", "get_tool_pkg", "get_target_pkg"}

\* C30: a tool or package is eligible exactly when its labels hold every
\* label of the match list of the site file (if it has one) and none of the
\* ban list; all_tools and all_pkgs yield exactly the eligible tools and
\* packages, and get_tool_pkg and get_target_pkg return a defined subject
\* exactly when it is eligible.
C30_EligibleHasEveryMatchLabel ==
    ConfigCalled =>
      /\ call.fn = "all_tools" =>
           result.value = {Tool(tn) : tn \in {m \in cfg.tools : EligibleByAll(Tool(m))}}
      /\ call.fn = "all_pkgs" =>
           result.value = {Pkg(tn) : tn \in {m \in cfg.pkgs : EligibleByAll(Pkg(m))}}
      /\ \A s \in LookedUp : (result.raised = "None") <=> EligibleByAll(s)

\* The same with some label of the match list in place of every label.
C30_EligibleHasSomeMatchLabel ==
    ConfigCalled =>
      /\ call.fn = "all_tools" =>
           result.value = {Tool(tn) : tn \in {m \in cfg.tools : EligibleByAny(Tool(m))}}
      /\ call.fn = "all_pkgs" =>
           result.value = {Pkg(tn) : tn \in {m \in cfg.pkgs : EligibleByAny(Pkg(m))}}
      /\ \A s \in LookedUp :
           /\ (result.raised = "None") <=> EligibleByAny(s)
           /\ result.raised = "None" => result.value = s
      /\ (call.fn \in {"get_tool_pkg", "get_target_pkg"} /\ LookedUp = {})
           => result.raised = "GenericError"

\* A lookup returned a package that has one of two labels of the match list.
C30_SomeLabelSuffices ==
    /\ ConfigCalled /\ cfg.labels.has_match /\ result.raised = "None"
    /\ \E s \in LookedUp :
         /\ cfg.labels.match \cap label_set(cfg, s) # {}
         /\ ~(cfg.labels.match \subseteq label_set(cfg, s))

(***************************************************************************)
(* Loading a configuration: Config._parse_yml registers the declarations   *)
(* of the imported file and then those of the root file.  A manifest is    *)
(* the list of its declarations in the order _parse_yml meets them and the *)
(* filter of the import; a table maps a name to the place of the           *)
(* declaration registered under it.                                        *)
(***************************************************************************)
\* A declaration: file 1 is the imported file, file 2 the root; inline tells
\* that a tool or package carries a source of its own.
Decl(fl, kd, nm, inl) == [file |-> fl, kind |-> kd, name |-> nm, inline |-> inl]

\* The lists of one file are read in this order.
KindPlace(kd) ==
    CASE kd = "source" -> 1 [] kd = "tool" -> 2 [] kd = "package" -> 3 [] kd = "task" -> 4

DeclNames == {"a", "b"}

Decls ==
    {Decl(fl, kd, nm, FALSE) : fl \in {1, 2}, kd \in {"source", "task"}, nm \in DeclNames}
      \cup {Decl(fl, kd, nm, inl) : fl \in {1, 2}, kd \in {"tool", "package"},
                                    nm \in DeclNames, inl \in Bool}

\* import with file: or with all_<kind>: no filter.
NoFilter == [none |-> TRUE, names |-> {}]

\* filter_<kind> = import_def[kind]
NameFilter(S) == [none |-> FALSE, names |-> S]

\* The filters of an import: none, the empty list, or a list of one name.
Filters == {NoFilter, NameFilter({}), NameFilter({"a"})}

\* The declarations are met file by file and list by list.
InLoadOrder(ds) ==
    \A i \in 1..(Len(ds) - 1) :
      \/ ds[i].file < ds[i + 1].file
      \/ ds[i].file = ds[i + 1].file /\ KindPlace(ds[i].kind) <= KindPlace(ds[i + 1].kind)

\* The manifests of at most three declarations.
Manifests ==
    {[decls |-> ds, filter |-> ft] :
       ds \in {x \in {<<>>} \cup [1..1 -> Decls] \cup [1..2 -> Decls] \cup [1..3 -> Decls] :
                 InLoadOrder(x)},
       ft \in Filters}

\* Config() before _parse_yml ran.
NoTables ==
    [_sources |-> <<>>, _tool_pkgs |-> <<>>, _target_pkgs |-> <<>>, _tasks |-> <<>>,
     raised |-> "None"]

\* if not (filter is None) and (name not in filter): continue
FilteredOut(m, d) == d.file = 1 /\ ~m.filter.none /\ d.name \notin m.filter.names

\* self._sources[src.name] = src, unless the name is in it.
add_source(tab, nm, i) ==
    IF nm \in DOMAIN tab._sources THEN [tab EXCEPT !.raised = "GenericError"]
    ELSE [tab EXCEPT !._sources = (nm :> i) @@ tab._sources]

\* The table a tool, package or task is entered in.
enter(tab, d, i) ==
    CASE d.kind = "tool" -> [tab EXCEPT !._tool_pkgs = (d.name :> i) @@ tab._tool_pkgs]
      [] d.kind = "package" -> [tab EXCEPT !._target_pkgs = (d.name :> i) @@ tab._target_pkgs]
      [] d.kind = "task" -> [tab EXCEPT !._tasks = (d.name :> i) @@ tab._tasks]

\* One turn of the loops of _parse_yml, for the declaration at place i.
parse_decl(m, tab, i) ==
    LET d == m.decls[i]
    IN IF d.kind = "source"
       THEN IF FilteredOut(m, d) THEN tab ELSE add_source(tab, d.name, i)
       ELSE LET with_source == IF d.inline THEN add_source(tab, d.name, i) ELSE tab
            IN IF with_source.raised # "None" \/ FilteredOut(m, d) THEN with_source
               ELSE enter(with_source, d, i)

\* The loops of _parse_yml from place i on.
RECURSIVE parse_from(_, _, _)
parse_from(m, tab, i) ==
    IF i > Len(m.decls) \/ tab.raised # "None" THEN tab
    ELSE parse_from(m, parse_decl(m, tab, i), i + 1)

\* Config._parse_yml
_parse_yml(m) == parse_from(m, NoTables, 1)

InitLoad ==
    /\ cfg = CfgTool
    /\ \E m \in Manifests :
         InitCalling(NewPlan({}), 0, [f \in AllFiles(cfg) |-> BaseValue("clean", f)],
                     [fn |-> "_parse_yml", args |-> <<m>>])

\* Config.__init__ loads the manifest.
LoadConfig ==
    /\ call # NoCall /\ result = NoCall
    /\ call.fn = "_parse_yml"
    /\ result' = _parse_yml(call.args[1])
    /\ UNCHANGED <<cfg, plan, seed, fs, pc, planned, exec_status, n, any_failed_items,
                   raised, invoked, call>>

NextLoad == LoadConfig

SpecLoad == InitLoad /\ [][NextLoad]_vars

\* A manifest was loaded, or loading it raised.
Loaded == call # NoCall /\ call.fn = "_parse_yml" /\ result # NoCall

\* The places of the declarations of a kind and a name that the filter of
\* the import lets pass; a tool or package with a source of its own
\* declares a source too.
Declared(m, kd, nm) ==
    {i \in DOMAIN m.decls :
       /\ m.decls[i].name = nm /\ ~FilteredOut(m, m.decls[i])
       /\ \/ m.decls[i].kind = kd
          \/ kd = "source" /\ m.decls[i].inline}

\* The table of a kind.
TableOf(tab, kd) ==
    CASE kd = "source" -> tab._sources [] kd = "tool" -> tab._tool_pkgs
      [] kd = "package" -> tab._target_pkgs [] kd = "task" -> tab._tasks

\* Loading fails when a name is declared twice within one of the kinds, and
\* after a load the name denotes its one declaration.
UniqueIn(Kinds) ==
    \A kd \in Kinds : \A nm \in DeclNames :
      LET D == Declared(call.args[1], kd, nm)
      IN /\ Cardinality(D) > 1 => result.raised = "GenericError"
         /\ (result.raised = "None" /\ D # {}) =>
              /\ nm \in DOMAIN TableOf(result, kd)
              /\ D = {TableOf(result, kd)[nm]}

\* C31: subject names are unique within their kind: loading a configuration
\* in which two sources, two tools, two packages or two tasks have the same
\* name fails, so after a load every name of a kind denotes the single
\* declaration of it and no later declaration replaced an earlier one.
C31_NamesUniqueWithinKind ==
    Loaded => UniqueIn({"source", "tool", "package", "task"})

\* The same of the sources alone.
C31_SourceNamesUnique ==
    Loaded => UniqueIn({"source"})

\* The load of two tools of one name succeeded, and the name denotes the
\* second of them.
C31_LaterToolReplacedEarlier ==
    /\ Loaded /\ result.raised = "None"
    /\ \E nm \in DOMAIN result._tool_pkgs :
         \E i \in Declared(call.args[1], "tool", nm) : i < result._tool_pkgs[nm]


(***************************************************************************)
(* run_program: the checks on containerless steps and tools, the queue of  *)
(* the tools of the manifest, and the place where the program is started.  *)
(* A tool table maps a tool to its containerless flag and to its           *)
(* tools_required entries; an entry holds the required tool and its        *)
(* recursive key: "absent", "true" or "false".                             *)
(***************************************************************************)
ToolEntry(t, r) == [tool |-> t, recursive |-> r]

ToolYml(cl, reqs) == [containerless |-> cl, tools_required |-> reqs]

TableTools == {"t1", "t2", "t3"}

\* One entry, or none when the key is "none".
EntryList(t, r) == IF r = "none" THEN <<>> ELSE <<ToolEntry(t, r)>>

\* t1 requires t2 and perhaps t3, t2 requires t3, t3 perhaps requires t1.
ToolTables ==
    {("t1" :> ToolYml(c1, <<ToolEntry("t2", r12)>> \o EntryList("t3", r13)))
       @@ ("t2" :> ToolYml(c2, <<ToolEntry("t3", r23)>>))
       @@ ("t3" :> ToolYml(FALSE, EntryList("t1", r31))) :
       c1 \in Bool, c2 \in Bool,
       r12 \in {"absent", "true", "false"}, r23 \in {"absent", "true", "false"},
       r13 \in {"none", "true"}, r31 \in {"none", "true"}}

\* The tool lists of a step: resolve_tool_deps returns a set, so no tool
\* is twice in it and its order is that of the iteration of the set.
ToolLists ==
    {<<>>} \cup {<<t>> : t \in TableTools}
           \cup {tu \in [1..2 -> TableTools] : tu[1] # tu[2]}

\* container: of bootstrap-site.yml; runtime "None" is no runtime.
Site(rt, allow) == [runtime |-> rt, allow_containerless |-> allow]

Runtimes == {"None", "docker", "cbuildrt"}

\* HostPackage.recursive_tools_required
recursive_tools_required(tab, t) ==
    LET followed == SelectSeq(tab[t].tools_required, LAMBDA y : y.recursive # "absent")
    IN [i \in 1..Len(followed) |-> followed[i].tool]

\* The entries resolve_tool_deps descends into.
descended_tools_required(tab, t) ==
    LET followed == SelectSeq(tab[t].tools_required, LAMBDA y : y.recursive = "true")
    IN [i \in 1..Len(followed) |-> followed[i].tool]

Elements(sq) == {sq[i] : i \in DOMAIN sq}

\* for dep_name in pkg.recursive_tools_required: append it unless visited.
RECURSIVE append_deps(_, _, _)
append_deps(queue, deps, i) ==
    IF i > Len(deps) THEN queue
    ELSE append_deps(IF deps[i] \in Elements(queue) THEN queue ELSE Append(queue, deps[i]),
                     deps, i + 1)

\* while i < len(pkg_queue)
RECURSIVE pkg_queue_from(_, _, _)
pkg_queue_from(tab, queue, i) ==
    IF i > Len(queue) THEN queue
    ELSE pkg_queue_from(tab, append_deps(queue, recursive_tools_required(tab, queue[i]), 1),
                        i + 1)

\* The tools of the manifest.
pkg_queue(tab, tool_pkgs) == pkg_queue_from(tab, tool_pkgs, 1)

tools_all_containerless(tab, tool_pkgs, containerless) ==
    IF tool_pkgs # <<>> THEN \A i \in DOMAIN tool_pkgs : tab[tool_pkgs[i]].containerless
    ELSE containerless

tools_some_containerless(tab, tool_pkgs, containerless) ==
    IF tool_pkgs # <<>> THEN \E i \in DOMAIN tool_pkgs : tab[tool_pkgs[i]].containerless
    ELSE containerless

use_container(st, containerless) ==
    /\ ~(containerless /\ st.allow_containerless)
    /\ st.runtime # "None"

\* Mutation of not_allowed: containerless tools run in the container.
not_allowed_never(tools_all, use) == FALSE

\* "running containerless is not allowed by your configuration"
not_allowed(tools_all, use) == tools_all /\ use

\* Mutation of step_differs: the flag of the step is not compared.
step_differs_never(containerless, tools_all) == FALSE

\* "containerless steps can only use containerless tools"
step_differs(containerless, tools_all) == containerless # tools_all

\* run_program raised before a process was started.
Fails(e) == [raised |-> e, started |-> "none", tools |-> <<>>]

\* run_program: what it raises, where it starts the program (in the
\* container or on the host) and the tools of the manifest.
run_program(tab, st, containerless, tool_pkgs) ==
    LET tools_all == tools_all_containerless(tab, tool_pkgs, containerless)
        tools_some == tools_some_containerless(tab, tool_pkgs, containerless)
        use == use_container(st, containerless)
    IN IF tools_some # tools_all THEN Fails("GenericError")
       ELSE IF not_allowed(tools_all, use) THEN Fails("GenericError")
       ELSE IF step_differs(containerless, tools_all) THEN Fails("GenericError")
       ELSE [raised |-> "None",
             started |-> IF use THEN "container" ELSE "host",
             tools |-> pkg_queue(tab, tool_pkgs)]

InitRun ==
    /\ cfg = CfgTool
    /\ \E tab \in ToolTables, rt \in Runtimes, allow \in Bool, cl \in Bool, tps \in ToolLists :
         InitCalling(NewPlan({}), 0, [f \in AllFiles(cfg) |-> BaseValue("clean", f)],
                     [fn |-> "run_program", args |-> <<tab, Site(rt, allow), cl, tps>>])

\* run_step hands the step to run_program.
RunProgram ==
    /\ call # NoCall /\ result = NoCall
    /\ call.fn = "run_program"
    /\ result' = run_program(call.args[1], call.args[2], call.args[3], call.args[4])
    /\ UNCHANGED <<cfg, plan, seed, fs, pc, planned, exec_status, n, any_failed_items,
                   raised, invoked, call>>

NextRun == RunProgram

SpecRun == InitRun /\ [][NextRun]_vars

\* run_program returned or raised.
Ran == call # NoCall /\ call.fn = "run_program" /\ result # NoCall

\* The arguments of the call of run_program.
RunTable == call.args[1]

RunSite == call.args[2]

RunContainerless == call.args[3]

RunTools == call.args[4]

C32_WitnessRefused ==
    /\ Ran /\ RunContainerless /\ RunTools # <<>>
    /\ \A i \in DOMAIN RunTools : RunTable[RunTools[i]].containerless
    /\ ~RunSite.allow_containerless /\ RunSite.runtime = "docker"
    /\ result.raised = "GenericError"

\* A containerless step ran on the host of a site that allows it.
C32_WitnessAllowed ==
    /\ Ran /\ RunContainerless /\ RunSite.allow_containerless
    /\ RunSite.runtime = "docker" /\ result.started = "host"


\* The tools reached from the tools of S through tools_required entries
\* whose recursive key is true: what resolve_tool_deps descends into.
RECURSIVE DescendedClosure(_, _)
DescendedClosure(tab, S) ==
    LET T == S \cup UNION {Elements(descended_tools_required(tab, t)) : t \in S}
    IN IF T = S THEN S ELSE DescendedClosure(tab, T)

\* The tools reached from the tools of S through tools_required entries
\* that have a recursive key, whatever its value.
RECURSIVE KeyedClosure(_, _)
KeyedClosure(tab, S) ==
    LET T == S \cup UNION {Elements(recursive_tools_required(tab, t)) : t \in S}
    IN IF T = S THEN S ELSE KeyedClosure(tab, T)

\* The list begins with the tools of the step in their order and holds no
\* tool twice.
BeginsWithToolSet(tools) ==
    /\ Len(tools) >= Len(RunTools)
    /\ \A i \in DOMAIN RunTools : tools[i] = RunTools[i]
    /\ \A i \in DOMAIN tools : \A j \in DOMAIN tools : tools[i] = tools[j] => i = j

\* C36: the tool list of the manifest is the transitive tool closure of the
\* tool set: it begins with the tools of the tool set in order, holds every
\* tool at most once, and holds a further tool only if a chain of
\* tools_required entries marked recursive: true leads to it; an entry with
\* recursive: false or without the key is never followed.
C36_ManifestToolsAreRecursiveClosure ==
    (Ran /\ result.raised = "None") =>
      /\ BeginsWithToolSet(result.tools)
      /\ Elements(result.tools) = DescendedClosure(RunTable, Elements(RunTools))

\* The tool list of the manifest is the closure of the tool set under the
\* entries that have a recursive key, be it true or false.
C36_ManifestToolsAreKeyedClosure ==
    (Ran /\ result.raised = "None") =>
      /\ BeginsWithToolSet(result.tools)
      /\ Elements(result.tools) = KeyedClosure(RunTable, Elements(RunTools))

\* The manifest of a step with the one tool t1 holds t2, that t1 requires
\* with recursive: false.
C36_FalseEntryFollowed ==
    /\ Ran /\ result.raised = "None" /\ RunTools = <<"t1">>
    /\ RunTable["t1"].tools_required[1] = ToolEntry("t2", "false")
    /\ Len(result.tools) >= 2 /\ result.tools[2] = "t2"

\* The flags of the tools of the step differ from each other or from the
\* flag of the step.
FlagsDiffer ==
    \E i \in DOMAIN RunTools :
      \/ RunTable[RunTools[i]].containerless # RunContainerless
      \/ \E j \in DOMAIN RunTools :
           RunTable[RunTools[i]].containerless # RunTable[RunTools[j]].containerless

C37_WitnessMixed ==
    /\ Ran /\ RunTools = <<"t1", "t2">>
    /\ RunTable["t1"].containerless /\ ~RunTable["t2"].containerless
    /\ RunSite.allow_containerless /\ result.raised = "GenericError"


(***************************************************************************)
(* traverse_graph: a graph maps a node to the list of nodes that visit     *)
(* returns for it; key is the identity, as for every caller.  The call     *)
(* proceeds loop turn by loop turn; result holds the locals of the call.   *)
(***************************************************************************)
GraphNodes == {"n1", "n2", "n3"}

\* The lists of at most two nodes.
NodeLists == {<<>>} \cup [1..1 -> GraphNodes] \cup [1..2 -> GraphNodes]

\* The graphs: n1 and n2 have at most two neighbours, n3 at most one, and
\* a node may be returned twice and may be its own neighbour.
Graphs ==
    {("n1" :> a) @@ ("n2" :> b) @@ ("n3" :> c) :
       a \in NodeLists, b \in NodeLists, c \in {<<>>} \cup [1..1 -> GraphNodes]}

\* The root lists, possibly naming a root twice.
RootLists == {<<>>, <<"n1">>, <<"n2">>, <<"n1", "n1">>, <<"n1", "n2">>, <<"n2", "n3">>}

\* Mutation of seen_root: a root is stacked every time it is named.
seen_root_never(seen, k) == FALSE

\* if k in seen: continue, in the loop over the roots.
seen_root(seen, k) == k \in seen

\* for n in roots: stack it unless seen.
RECURSIVE stack_roots(_, _, _)
stack_roots(tr, roots, i) ==
    IF i > Len(roots) THEN tr
    ELSE stack_roots(IF seen_root(tr.seen, roots[i]) THEN tr
                     ELSE [tr EXCEPT !.seen = @ \cup {roots[i]},
                                     !.stack = Append(@, roots[i])],
                     roots, i + 1)

\* for n in visit(c): stack it unless seen.
RECURSIVE stack_neighbors(_, _, _)
stack_neighbors(tr, nbs, i) ==
    IF i > Len(nbs) THEN tr
    ELSE stack_neighbors(IF nbs[i] \in tr.seen THEN tr
                         ELSE [tr EXCEPT !.seen = @ \cup {nbs[i]},
                                         !.stack = Append(@, nbs[i])],
                         nbs, i + 1)

\* The locals of traverse_graph on entry; visits counts the calls of visit.
NewTraversal ==
    [seen |-> {}, stack |-> <<>>, visits |-> [v \in GraphNodes |-> 0], returned |-> FALSE]

\* c = stack.pop() and the loop over visit(c).
pop_and_visit(g, tr) ==
    LET c == tr.stack[Len(tr.stack)]
        popped == [tr EXCEPT !.stack = SubSeq(@, 1, Len(@) - 1),
                             !.visits[c] = @ + 1]
    IN stack_neighbors(popped, g[c], 1)

InitTraverse ==
    /\ cfg = CfgTool
    /\ \E g \in Graphs, roots \in RootLists :
         InitCalling(NewPlan({}), 0, [f \in AllFiles(cfg) |-> BaseValue("clean", f)],
                     [fn |-> "traverse_graph", args |-> <<g, roots>>])

Traversing == call # NoCall /\ call.fn = "traverse_graph"

\* traverse_graph is entered and stacks the roots.
TraverseRoots ==
    /\ Traversing /\ result = NoCall
    /\ result' = stack_roots(NewTraversal, call.args[2], 1)
    /\ UNCHANGED <<cfg, plan, seed, fs, pc, planned, exec_status, n, any_failed_items,
                   raised, invoked, call>>

\* One turn of while stack.
TraverseVisit ==
    /\ Traversing /\ result # NoCall
    /\ ~result.returned /\ result.stack # <<>>
    /\ result' = pop_and_visit(call.args[1], result)
    /\ UNCHANGED <<cfg, plan, seed, fs, pc, planned, exec_status, n, any_failed_items,
                   raised, invoked, call>>

\* The stack is empty: traverse_graph returns.
TraverseReturn ==
    /\ Traversing /\ result # NoCall
    /\ ~result.returned /\ result.stack = <<>>
    /\ result' = [result EXCEPT !.returned = TRUE]
    /\ UNCHANGED <<cfg, plan, seed, fs, pc, planned, exec_status, n, any_failed_items,
                   raised, invoked, call>>

NextTraverse == TraverseRoots \/ TraverseVisit \/ TraverseReturn

SpecTraverse == InitTraverse /\ [][NextTraverse]_vars

\* The interpreter runs the call on: a loop turn that can be taken is taken.
SpecTraverseFair == SpecTraverse /\ WF_vars(NextTraverse)

\* The nodes reachable from the nodes of S.
RECURSIVE Reachable(_, _)
Reachable(g, S) ==
    LET T == S \cup UNION {Elements(g[v]) : v \in S}
    IN IF T = S THEN S ELSE Reachable(g, T)

\* traverse_graph returned, and visit was called once for every node
\* reachable from the roots and for no other node.
VisitedReachableOnce ==
    /\ result # NoCall /\ result.returned
    /\ \A v \in GraphNodes :
         result.visits[v] =
           IF v \in Reachable(call.args[1], Elements(call.args[2])) THEN 1 ELSE 0

\* C34: traverse_graph terminates on every finite graph, cyclic or not, and
\* has then called visit exactly once for each key reachable from the roots
\* (once for a root named twice and for a node reached along several
\* paths) and never for an unreachable node.
C34_TraverseVisitsReachableOnce == <>VisitedReachableOnce

\* At no point of the traversal was visit called twice for a node, or for
\* a node that is not reachable.
C34_NeverVisitedTwice ==
    (Traversing /\ result # NoCall) =>
      \A v \in GraphNodes :
        /\ result.visits[v] <= 1
        /\ result.visits[v] = 1 => v \in Reachable(call.args[1], Elements(call.args[2]))

\* The traversal of a cycle n1 -> n2 -> n1 from the root n1 named twice
\* returned; n3 is not reachable.
C34_Witness ==
    /\ Traversing /\ result # NoCall /\ result.returned
    /\ call.args[2] = <<"n1", "n1">>
    /\ call.args[1]["n1"] = <<"n2", "n2">> /\ call.args[1]["n2"] = <<"n1">>
    /\ result.visits = ("n1" :> 1) @@ ("n2" :> 1) @@ ("n3" :> 0)


(***************************************************************************)
(* replace_at_vars: re.sub(r"@([\w:-]+)@", do_substitute, string).  The    *)
(* string is scanned from the left; where the pattern matches, the match   *)
(* is replaced and the scan goes on behind it, elsewhere the character is  *)
(* copied.  A resolver is a function from the names it knows to values.    *)
(***************************************************************************)
\* [\w:-]
IsVarnameChar(ch) ==
    \/ PositionIn(alphas, ch) > 0 \/ PositionIn(UpperChars, ch) > 0
    \/ isdigit(ch) \/ ch \in {"_", ":", "-"}

\* [\w:-]+ is greedy: the place behind the longest run of its characters
\* from place j on.
RECURSIVE run_end(_, _)
run_end(s, j) ==
    IF j <= Len(s) /\ IsVarnameChar(s[j]) THEN run_end(s, j + 1) ELSE j

\* Mutation of match_end: the name may be empty.
match_end_or_empty(s, i) ==
    LET e == run_end(s, i + 1)
    IN IF s[i] = "@" /\ e <= Len(s) /\ s[e] = "@" THEN e ELSE 0

\* The place of the closing @ of the match that starts at place i, or 0.
match_end(s, i) ==
    LET e == run_end(s, i + 1)
    IN IF s[i] = "@" /\ e > i + 1 /\ e <= Len(s) /\ s[e] = "@" THEN e ELSE 0

\* re.sub with do_substitute, from place i on.
RECURSIVE sub_from(_, _, _, _)
sub_from(s, resolve, i, out) ==
    IF i > Len(s) THEN Returned(out)
    ELSE LET e == match_end(s, i)
             varname == SubSeq(s, i + 1, e - 1)
         IN IF e = 0 THEN sub_from(s, resolve, i + 1, Append(out, s[i]))
            ELSE IF varname \notin DOMAIN resolve THEN Raised("GenericError")
            ELSE sub_from(s, resolve, e + 1, out \o resolve[varname])

\* replace_at_vars
replace_at_vars(s, resolve) == sub_from(s, resolve, 1, <<>>)

AtChars == {"@", "a", "b", "/"}

\* The strings of at most five characters.
AtStrings ==
    {<<>>} \cup [1..1 -> AtChars] \cup [1..2 -> AtChars] \cup [1..3 -> AtChars]
           \cup [1..4 -> AtChars] \cup [1..5 -> AtChars]

\* A resolver that knows a, one that knows a and b and whose values hold
\* an @ or nothing, and one that knows no name.
Resolvers ==
    {(<<"a">> :> <<"v", "w">>),
     (<<"a">> :> <<"@", "b", "@">>) @@ (<<"b">> :> <<>>),
     [x \in {} |-> <<>>]}

InitSubstitute ==
    /\ cfg = CfgTool
    /\ \E s \in AtStrings, resolve \in Resolvers :
         InitCalling(NewPlan({}), 0, [f \in AllFiles(cfg) |-> BaseValue("clean", f)],
                     [fn |-> "replace_at_vars", args |-> <<s, resolve>>])

\* A caller substitutes the variables of a string.
Substitute ==
    /\ call # NoCall /\ result = NoCall
    /\ call.fn = "replace_at_vars"
    /\ result' = replace_at_vars(call.args[1], call.args[2])
    /\ UNCHANGED <<cfg, plan, seed, fs, pc, planned, exec_status, n, any_failed_items,
                   raised, invoked, call>>

NextSubstitute == Substitute

SpecSubstitute == InitSubstitute /\ [][NextSubstitute]_vars

Substituted == call # NoCall /\ call.fn = "replace_at_vars" /\ result # NoCall

\* The place of the first @ behind place i, or 0.
NextAt(s, i) ==
    IF \E j \in (i + 1)..Len(s) : s[j] = "@"
    THEN CHOOSE j \in (i + 1)..Len(s) : s[j] = "@" /\ \A k \in (i + 1)..(j - 1) : s[k] # "@"
    ELSE 0

\* An @NAME@ sequence starts at place i: two @ with a name between them.
IsAtName(s, i) ==
    /\ s[i] = "@" /\ NextAt(s, i) > i + 1
    /\ \A k \in (i + 1)..(NextAt(s, i) - 1) : IsVarnameChar(s[k])

\* The @NAME@ sequence at place i is one of the sequences of the string
\* read from the left: its opening @ does not close the sequence before it.
RECURSIVE IsSequenceAt(_, _)
IsSequenceAt(s, i) ==
    /\ IsAtName(s, i)
    /\ ~\E h \in 1..(i - 1) : NextAt(s, h) = i /\ IsSequenceAt(s, h)

\* The name of the sequence at place i.
NameAt(s, i) == SubSeq(s, i + 1, NextAt(s, i) - 1)

\* What stands for place i in the output: the value for the opening @ of a
\* sequence, nothing for the other characters of a sequence, the character
\* itself otherwise.
PieceAt(s, resolve, i) ==
    IF IsSequenceAt(s, i) THEN resolve[NameAt(s, i)]
    ELSE IF \E h \in 1..(i - 1) : IsSequenceAt(s, h) /\ NextAt(s, h) >= i THEN <<>>
    ELSE <<s[i]>>

RECURSIVE PiecesFrom(_, _, _)
PiecesFrom(s, resolve, i) ==
    IF i > Len(s) THEN <<>> ELSE PieceAt(s, resolve, i) \o PiecesFrom(s, resolve, i + 1)

\* C35: replace_at_vars is the identity on every string without an @NAME@
\* sequence, replaces every @NAME@ whose variable the resolver knows by its
\* value and leaves all other characters unchanged, and raises an error,
\* returning no string, when one @NAME@ names a variable that the resolver
\* does not know.
C35_ReplaceAtVars ==
    Substituted =>
      LET s == call.args[1]
          resolve == call.args[2]
      IN /\ (\A i \in DOMAIN s : ~IsAtName(s, i)) => result = Returned(s)
         /\ IF \E i \in DOMAIN s : IsSequenceAt(s, i) /\ NameAt(s, i) \notin DOMAIN resolve
            THEN result = Raised("GenericError")
            ELSE result = Returned(PiecesFrom(s, resolve, 1))

\* /@a@b with a known became /vwb.
C35_Witness ==
    /\ Substituted /\ call.args[1] = <<"/", "@", "a", "@", "b">>
    /\ result = Returned(<<"/", "v", "w", "b">>)

\* @a@b@ with a and b known: the @ that closes @a@ opens no sequence, and
\* the value of a is not read again.
C35_WitnessSharedAt ==
    /\ Substituted /\ call.args[1] = <<"@", "a", "@", "b", "@">>
    /\ result = Returned(<<"@", "b", "@", "b", "@">>)

\* @a@ with no name known raised.
C35_WitnessUnknown ==
    /\ Substituted /\ call.args[1] = <<"@", "a", "@">>
    /\ result = Raised("GenericError")


\* assert edge_item.exec_status != ExecutionStatus.NULL, for the item the
\* loop is at.
AssertNoNullPredecessor ==
    AtItem => \A e \in ActiveEdgeTargets(scheduled[n]) : exec_status[e] # "NULL"

\* assert not any_failed_edges, where the loop reaches it.
AssertNoFailedPredecessor ==
    (/\ AtItem
     /\ ~(plan.keep_going /\ any_failed_edges(scheduled[n]))
     /\ ~not_wanted(plan, scheduled[n])) => ~any_failed_edges(scheduled[n])

\* The handlers were invoked one at a time in the emitted order.
InvokedInOrder ==
    /\ \A i \in 1..Len(invoked) : invoked[i].key \in Elements(scheduled)
    /\ \A i \in 1..Len(invoked) : \A j \in 1..Len(invoked) :
         i < j => Position(scheduled, invoked[i].key) < Position(scheduled, invoked[j].key)
    /\ pc = "running" => \A i \in 1..Len(invoked) : Position(scheduled, invoked[i].key) < n

\* C38: in every run of run_plan, with or without keep_going, handlers are
\* invoked one at a time in the emitted order, every active edge target of
\* an item whose handler is invoked was processed before it and is SUCCESS,
\* and the assertions of the driver hold: no active predecessor is NULL,
\* and none has failed where the handler is run.
C38_PredecessorsSucceeded ==
    /\ InvokedInOrder
    /\ \A i \in 1..Len(invoked) : \A e \in ActiveEdgeTargets(invoked[i].key) :
         /\ e \in Elements(scheduled)
         /\ Position(scheduled, e) < Position(scheduled, invoked[i].key)
         /\ exec_status[e] = "SUCCESS"
    /\ AssertNoNullPredecessor
    /\ AssertNoFailedPredecessor

\* Under keep_going a handler failed, an item that depends on it was
\* skipped, and a later handler whose active edge targets all succeeded
\* was invoked.
C38_Witness ==
    /\ plan.keep_going /\ Len(invoked) >= 2
    /\ \E i \in 1..Len(invoked) : invoked[i].outcome = "failure"
    /\ \E k \in Elements(scheduled) : exec_status[k] = "PREREQS_FAILED"
    /\ invoked[Len(invoked)].outcome = "success"
    /\ ActiveEdgeTargets(invoked[Len(invoked)].key) # {}


(***************************************************************************)
(* One handler run on a tree, and what follows it: the handler of          *)
(* CONFIGURE_TOOL followed by the compilation of stages of the tool, or    *)
(* the handler of FETCH_SRC; then run_plan computes a plan with check set  *)
(* that wants the same item.  result holds the tree before the handler.    *)
(***************************************************************************)
\* At most so many entries of a tree differ from the base tree.
MaxFlipped == 2

\* The trees that differ from a base tree in at most MaxFlipped entries;
\* an entry is absent or was written at time 1.
HandlerTrees(c) ==
    {[f \in AllFiles(c) |->
        IF f \in D THEN (IF BaseValue(base, f) = NoTime THEN 1 ELSE NoTime)
        ELSE BaseValue(base, f)] :
       D \in SubsetsUpTo({f \in AllFiles(c) : f.mark # "remote_pkgver"}, MaxFlipped),
       base \in {"clean", "built"}}

\* The items whose handlers are run.
HandlerKeys(c) ==
    {PlanKey("CONFIGURE_TOOL", t) : t \in Tools(c)}
      \cup {PlanKey("FETCH_SRC", s) : s \in Sources(c)}

InitHandler ==
    /\ cfg \in {CfgTwoTools, CfgPkgs}
    /\ \E key \in HandlerKeys(cfg), f \in HandlerTrees(cfg) :
         InitCalling([NewPlan({key}) EXCEPT !.check = TRUE], 0, f,
                     [fn |-> "handler", args |-> <<key>>])

\* The handler of the item runs to its end or raises.
RunHandler ==
    /\ pc = "init"
    /\ call # NoCall /\ call.fn = "handler" /\ result = NoCall
    /\ \E outcome \in Outcomes(cfg, call.args[1]) :
         /\ fs' = HandlerEffect(cfg, fs, call.args[1], outcome, MaxTime + 1)
         /\ result' = [before |-> fs, outcome |-> outcome, compiled |-> {}]
    /\ UNCHANGED <<cfg, plan, seed, pc, planned, exec_status, n, any_failed_items,
                   raised, invoked, call>>

\* After configure_tool returned, a stage of the tool is compiled.
CompileStage ==
    /\ pc = "init"
    /\ call # NoCall /\ call.fn = "handler" /\ result # NoCall
    /\ call.args[1].action = "CONFIGURE_TOOL" /\ result.outcome = "success"
    /\ \E st \in all_stages(cfg, call.args[1].subject) \ result.compiled :
         /\ fs' = HandlerSuccess(cfg, fs, PlanKey("COMPILE_TOOL_STAGE", st), MaxTime + 2)
         /\ result' = [result EXCEPT !.compiled = @ \cup {st}]
    /\ UNCHANGED <<cfg, plan, seed, pc, planned, exec_status, n, any_failed_items,
                   raised, invoked, call>>

NextHandler == RunHandler \/ CompileStage \/ ComputePlan

SpecHandler == InitHandler /\ [][NextHandler]_vars

\* The handler of the action ran with the outcome.
Handled(a, outcome) ==
    /\ call # NoCall /\ call.fn = "handler" /\ result # NoCall
    /\ call.args[1].action = a /\ result.outcome = outcome

HandledSubject == call.args[1].subject

\* The entries of the build directory of a tool.
InToolBuildDir(c, t) == ToolBuildDir(c, t) \cup {File("build_dir", t)}

\* C39: after CONFIGURE_TOOL(t) succeeded the configured marker exists, the
\* compiled marker of every stage of t is absent and the probe of
\* COMPILE_TOOL_STAGE reports missing for it until the stage is compiled
\* again, and the installed markers of the tool and all markers of other
\* subjects are as they were.
C39_ConfigureToolFrame ==
    Handled("CONFIGURE_TOOL", "success") =>
      /\ ~_determine_state(cfg, plan, fs, PlanKey("CONFIGURE_TOOL", HandledSubject)).missing
      /\ \A st \in all_stages(cfg, HandledSubject) :
           LET probe == _determine_state(cfg, plan, fs, PlanKey("COMPILE_TOOL_STAGE", st))
           IN IF st \in result.compiled THEN ~probe.missing
              ELSE fs[File("built", st)] = NoTime /\ probe.missing
      /\ \A f \in AllFiles(cfg) \ InToolBuildDir(cfg, HandledSubject) :
           fs[f] = result.before[f]

\* The tool tb was configured in a tree where both of its stages were
\* compiled and installed; the compiled markers are gone, the installed
\* markers and the markers of ta are there.
C39_Witness ==
    /\ Handled("CONFIGURE_TOOL", "success") /\ HandledSubject = Tool("tb")
    /\ result.compiled = {}
    /\ \A st \in all_stages(cfg, Tool("tb")) :
         /\ result.before[File("built", st)] # NoTime /\ fs[File("built", st)] = NoTime
         /\ fs[File("installed", st)] # NoTime
    /\ fs[File("configured", Tool("ta"))] # NoTime
    /\ fs[File("built", Stage("ta", NoName))] # NoTime

\* One stage of tb was compiled again after the configuration.
C39_WitnessCompiledAgain ==
    /\ Handled("CONFIGURE_TOOL", "success") /\ HandledSubject = Tool("tb")
    /\ result.compiled = {Stage("tb", "x")}
    /\ result.before[File("built", Stage("tb", "y"))] # NoTime

\* The probe of FETCH_SRC on a tree.
FetchProbe(tree) == _determine_state(cfg, plan, tree, PlanKey("FETCH_SRC", HandledSubject))

\* The fetch of a source that the probe reported missing failed: the probe
\* still reports missing, and a plan with check set that wants the source
\* fetches it again.
FailedFetchStaysMissing ==
    (/\ call # NoCall /\ call.fn = "handler" /\ result # NoCall
     /\ call.args[1].action = "FETCH_SRC" /\ result.outcome # "success"
     /\ FetchProbe(result.before).missing) =>
      /\ FetchProbe(fs).missing
      /\ PlanComputed => call.args[1] \in Elements(scheduled)

\* C40: the probe of FETCH_SRC reports missing=false for an archive (url)
\* source only if a fetch of it completed: when fetch_src fails the
\* checksum validation the source is not marked as fetched, a later probe
\* still reports missing, and a later plan with check set fetches it again.
C40_FailedArchiveFetchStaysMissing ==
    cfg.vcs = "url" =>
      /\ FailedFetchStaysMissing
      /\ Handled("FETCH_SRC", "error") =>
           fs[File("fetched", HandledSubject)] = result.before[File("fetched", HandledSubject)]

\* The same of a source that is fetched with git.
C40_FailedGitFetchStaysMissing ==
    cfg.vcs = "git" => FailedFetchStaysMissing

\* The fetch of an archive that was not there failed its checksum
\* validation; the probe reports the source as present and the plan
\* computed afterwards with check set does not fetch it.
C40_ArchiveLeftBehind ==
    /\ cfg.vcs = "url" /\ Handled("FETCH_SRC", "error")
    /\ FetchProbe(result.before).missing /\ ~FetchProbe(fs).missing
    /\ fs[File("fetched", HandledSubject)] = NoTime
    /\ PlanComputed /\ call.args[1] \notin Elements(scheduled)


(***************************************************************************)
(* mirror_src in two processes on one build root.  Each process mirrors    *)
(* the sources of its plan one after the other; result holds, for each     *)
(* process, where it is in mirror_src and the sources still to mirror,     *)
(* and the process whose open file holds the flock on                      *)
(* <build_root>/mirror/.xbstrap_lock.                                      *)
(***************************************************************************)
Procs == {1, 2}

\* No process holds the lock.
NoHolder == 0

\* The MIRROR_SRC items of the plan of a process: the version control of
\* each source, and whether the plan keeps going after a failed item.
MirrorPlans ==
    {[sources |-> ss, keep_going |-> kg] :
       ss \in [1..1 -> {"git", "url"}] \cup [1..2 -> {"git", "url"}], kg \in Bool}

\* Mutation of can_lock: flock does not wait.
can_lock_always(holder) == TRUE

\* fcntl.flock(f.fileno(), LOCK_EX) returns once no other open file holds
\* the lock.
can_lock(holder) == holder = NoHolder

InitMirror ==
    /\ cfg = CfgTool
    /\ \E a \in MirrorPlans, b \in MirrorPlans :
         InitCalling(NewPlan({}), 0, [f \in AllFiles(cfg) |-> BaseValue("clean", f)],
                     [fn |-> "mirror_src", args |-> <<a, b>>])

Mirroring == call # NoCall /\ call.fn = "mirror_src" /\ result # NoCall

\* The state of a process: pos is "idle" between two items, "opened" when
\* lock_directory has opened the lock file, "locked" when flock returned,
\* "fetching" while fetch_repo runs, "leaving" when the body of the with
\* statement returned or raised, "done" at the end of the plan.
At(pr, where) == result.pos[pr] = where

PlanUnchanged ==
    UNCHANGED <<cfg, plan, seed, fs, pc, planned, exec_status, n, any_failed_items,
                raised, invoked, call>>

\* The two processes are started.
MirrorStart ==
    /\ call # NoCall /\ call.fn = "mirror_src" /\ result = NoCall
    /\ result' = [pos |-> [pr \in Procs |-> "idle"],
                  todo |-> [pr \in Procs |-> call.args[pr].sources],
                  holder |-> NoHolder,
                  failed |-> [pr \in Procs |-> FALSE]]
    /\ PlanUnchanged

\* mirror_src is entered: it returns at once for a source that is not in
\* git, else lock_directory makes the directory and opens the lock file.
MirrorEnter ==
    /\ Mirroring
    /\ \E pr \in Procs :
         /\ At(pr, "idle") /\ result.todo[pr] # <<>>
         /\ IF Head(result.todo[pr]) # "git"
            THEN result' = [result EXCEPT !.todo[pr] = Tail(@)]
            ELSE result' = [result EXCEPT !.pos[pr] = "opened"]
    /\ PlanUnchanged

\* flock returns in the process.
MirrorLockBy(pr) ==
    /\ Mirroring
    /\ At(pr, "opened") /\ can_lock(result.holder)
    /\ result' = [result EXCEPT !.pos[pr] = "locked", !.holder = pr]
    /\ PlanUnchanged

\* flock returns.
MirrorLock == \E pr \in Procs : MirrorLockBy(pr)

\* The directories are made and fetch_repo starts.
MirrorFetch ==
    /\ Mirroring
    /\ \E pr \in Procs :
         /\ At(pr, "locked")
         /\ result' = [result EXCEPT !.pos[pr] = "fetching"]
    /\ PlanUnchanged

\* fetch_repo returns or raises.
MirrorFetched ==
    /\ Mirroring
    /\ \E pr \in Procs, ok \in Bool :
         /\ At(pr, "fetching")
         /\ result' = [result EXCEPT !.pos[pr] = "leaving", !.failed[pr] = ~ok]
    /\ PlanUnchanged

\* The with statement of lock_directory closes the lock file, which drops
\* the lock if this file holds it; after a failure the plan goes on with
\* the next item only under keep_going.
MirrorLeave ==
    /\ Mirroring
    /\ \E pr \in Procs :
         /\ At(pr, "leaving")
         /\ result' = [result EXCEPT
                         !.pos[pr] = "idle",
                         !.holder = IF @ = pr THEN NoHolder ELSE @,
                         !.failed[pr] = FALSE,
                         !.todo[pr] = IF result.failed[pr] /\ ~call.args[pr].keep_going
                                      THEN <<>> ELSE Tail(@)]
    /\ PlanUnchanged

\* The plan of a process has no item left.
MirrorDone ==
    /\ Mirroring
    /\ \E pr \in Procs :
         /\ At(pr, "idle") /\ result.todo[pr] = <<>>
         /\ result' = [result EXCEPT !.pos[pr] = "done"]
    /\ PlanUnchanged

NextMirror ==
    \/ MirrorStart \/ MirrorEnter \/ MirrorLock \/ MirrorFetch
    \/ MirrorFetched \/ MirrorLeave \/ MirrorDone

SpecMirror == InitMirror /\ [][NextMirror]_vars

\* Each process runs on, a fetch returns or raises in the end, and a flock
\* that can return returns.
SpecMirrorFair ==
    /\ SpecMirror
    /\ WF_vars(MirrorStart) /\ WF_vars(MirrorEnter) /\ WF_vars(MirrorFetch)
    /\ WF_vars(MirrorFetched) /\ WF_vars(MirrorLeave) /\ WF_vars(MirrorDone)
    /\ \A pr \in Procs : WF_vars(MirrorLockBy(pr))

\* No two processes fetch at the same time, and a process holds the lock
\* from before its fetch starts until after it ended.
MirrorExclusive ==
    Mirroring =>
      /\ \A pr \in Procs : \A qr \in Procs :
           (At(pr, "fetching") /\ At(qr, "fetching")) => pr = qr
      /\ \A pr \in Procs :
           (At(pr, "locked") \/ At(pr, "fetching") \/ At(pr, "leaving")) =>
             result.holder = pr

\* C33: two concurrent mirror_src on one build root never run the fetch of
\* the bare mirror at the same time, each holding the exclusive lock from
\* before its fetch starts until after it ends; the lock is released on
\* success and on failure, so a process that waits for it proceeds in the
\* end.
C33_MirrorFetchExclusive ==
    /\ []MirrorExclusive
    /\ \A pr \in Procs :
         (Mirroring /\ At(pr, "opened")) ~> (Mirroring /\ At(pr, "fetching"))

\* Process 2 waits for the lock while the fetch of process 1 has failed
\* and process 1 has not yet left the with statement.
C33_Witness ==
    /\ Mirroring /\ At(1, "leaving") /\ result.failed[1]
    /\ At(2, "opened") /\ result.holder = 1

====
